---------------------------- MODULE Spec2Model ----------------------------
(***************************************************************************)
(* In-memory state subsystem of src/internship/app.py: RateLimiter,        *)
(* SessionManager and HistoryManager, run by concurrent request handlers   *)
(* (Flask's threaded server, app.run at line 854).  Every handler executes *)
(* one Python statement (or one read / one write of a read-modify-write    *)
(* statement) per step; `with lock:` blocks are entered by acquiring the   *)
(* lock and left by releasing it.                                          *)
(*                                                                         *)
(* Time is the value datetime.now() returns, counted in ticks.  The        *)
(* program's 60-second rate window, its per-minute threshold, its 24-hour  *)
(* session timeout, its history capacity of 1000 and its read cap of 500   *)
(* are scaled down to a few ticks / entries; the comparisons that use them *)
(* are the code's.                                                         *)
(***************************************************************************)
EXTENDS Integers, Sequences, FiniteSets, TLC

VARIABLES
    now,                   \* the clock read by datetime.now()
    pc,                    \* pc[h]: the statement handler h executes next
    loc,                   \* loc[h]: the local variables of handler h
    rate_limit_tracker,    \* app.py:84
    active_sessions,       \* app.py:83
    user_contexts,         \* app.py:85
    conversation_history,  \* app.py:82
    sessions_lock,         \* app.py:87, 0 = free, else the holder
    history_lock,          \* app.py:86, 0 = free, else the holder
    calls,                 \* number of operations started so far
    admitted,              \* record: per key, the timestamps of allowed checks
    denied,                \* record: per key, the number of denied checks
    touched,               \* record: per session id, the touches that returned True
    lastTouch,             \* record: per session id, time of creation / last True touch
    entryCount,            \* number of history entries built so far (their ids)
    appended,              \* record: entries appended since the last clear
    clears,                \* record: number of completed clear() calls
    cleared,               \* record: last change of the log was a clear()
    seen,                  \* record: per reader, the log values during its call
    gemini_ready,          \* GENAI_AVAILABLE and config.GOOGLE_API_KEY, app.py:20-24, 61, 71-77
    chat,                  \* chat[h]: the frame of the /chat request handler h serves
    recorded               \* record: per session id, the exchanges update_context appended

vars == <<now, pc, loc, rate_limit_tracker, active_sessions, user_contexts,
          conversation_history, sessions_lock, history_lock, calls, admitted,
          denied, touched, lastTouch, entryCount, appended, clears, cleared, seen,
          gemini_ready, chat, recorded>>

---------------------------------------------------------------------------
(* Bounds of the model *)
MaxTime == 3
MaxCalls == 3
MaxChecks == 4
MaxReads == 2
MaxSessions == 2
MaxAppends == 4
MaxLimit == 3
MaxOps == 4
MaxRequests == 3
MaxParagraphs == 3

(* Program constants, scaled *)
RATE_LIMIT_PER_MINUTE == 2
RATE_WINDOW == 2
SESSION_TIMEOUT_HOURS == 2
MAX_HISTORY_ENTRIES == 3
HISTORY_READ_CAP == 2
MAX_CONTEXT_EXCHANGES == 2
MAX_MESSAGE_LENGTH == 22
MIN_PARAGRAPH_LENGTH == 3          \* 100 characters in the program
TARGET_LENGTH == 21                \* 3500
HARD_CAP == 24                     \* 4000
MINIMAL_CONTENT == 18              \* 3000
CUT_MARGIN == 2                    \* 50

Handlers == {1, 2}               \* two request-handler threads
GoodKeys == {"ip1"}
BadKey == "unhashable"          \* a key object dict lookup raises TypeError on
Keys == GoodKeys \cup {BadKey}
Clients == GoodKeys \cup {"ip2"}  \* the addresses /api/chat is called from
SessionIds == 1..MaxSessions
EmptyId == 0                    \* '' / None: falsy session id
BadId == -1                     \* unhashable session id (e.g. a JSON list)
NoWindow == <<-1>>              \* key not in rate_limit_tracker (no timestamp is negative)
NoSession == [absent |-> TRUE]
NoContext == [absent |-> TRUE]

Min(a, b) == IF a < b THEN a ELSE b
Max(a, b) == IF a > b THEN a ELSE b

NoRequest == [phase |-> "none", served |-> 0]
NoLocals == [arg |-> 0, t |-> 0, tmp |-> 0, res |-> 0, aux |-> 0]

\* a handler starts an operation when it has none running; the result of its
\* last operation stays in loc[h].res until then
Done == {"rl_done", "cs_done", "us_done", "iv_done", "ac_done", "gr_done", "ch_done",
         "uc_done", "ai_done", "fr_done"}
Ready(h) == pc[h] \in {"idle"} \cup Done

---------------------------------------------------------------------------
(* RateLimiter.is_rate_limited, app.py:112-135 *)

\* line 122-125: [timestamp for timestamp in window if timestamp > cutoff_time]
Pruned(window, cutoff) == SelectSeq(window, LAMBDA ts : ts > cutoff)

\* line 127: len(window) >= config.RATE_LIMIT_PER_MINUTE
\* faulty variant: threshold test with > instead of >=
OverLimitOffByOne(window) == Len(window) > RATE_LIMIT_PER_MINUTE
OverLimit(window) == Len(window) >= RATE_LIMIT_PER_MINUTE

\* line 133-135: except Exception: return False
\* faulty variant: the except clause denies
FailClosed == TRUE
OnRateLimiterFault == FALSE

\* call + lines 116-117: current_time = datetime.now(); cutoff_time = ...
RL_Call(h, key) ==
    /\ Ready(h)
    /\ calls < MaxChecks
    /\ pc' = [pc EXCEPT ![h] = "rl_check"]
    /\ calls' = calls + 1
    /\ loc' = [loc EXCEPT ![h] = [NoLocals EXCEPT !.arg = key, !.t = now,
                                                  !.aux = now - RATE_WINDOW]]
    /\ UNCHANGED <<now, rate_limit_tracker, active_sessions, user_contexts,
                   conversation_history, sessions_lock, history_lock, admitted, denied,
                   touched, lastTouch, entryCount, appended, clears, cleared, seen,
                   gemini_ready, chat, recorded>>

\* line 119: if client_ip not in rate_limit_tracker  (TypeError on an
\* unhashable key is caught at line 133)
RL_Check(h) ==
    /\ pc[h] = "rl_check"
    /\ IF loc[h].arg = BadKey
       THEN /\ pc' = [pc EXCEPT ![h] = "rl_done"]
            /\ loc' = [loc EXCEPT ![h].res = OnRateLimiterFault]
       ELSE /\ pc' = [pc EXCEPT ![h] =
                        IF rate_limit_tracker[loc[h].arg] = NoWindow
                        THEN "rl_init" ELSE "rl_prune"]
            /\ loc' = loc
    /\ UNCHANGED <<now, rate_limit_tracker, active_sessions, user_contexts,
                   conversation_history, sessions_lock, history_lock, calls, admitted, denied,
                   touched, lastTouch, entryCount, appended, clears, cleared, seen,
                   gemini_ready, chat, recorded>>

\* line 120: rate_limit_tracker[client_ip] = []
RL_Init(h) ==
    /\ pc[h] = "rl_init"
    /\ pc' = [pc EXCEPT ![h] = "rl_prune"]
    /\ rate_limit_tracker' = [rate_limit_tracker EXCEPT ![loc[h].arg] = <<>>]
    /\ UNCHANGED <<now, loc, active_sessions, user_contexts,
                   conversation_history, sessions_lock, history_lock, calls, admitted, denied,
                   touched, lastTouch, entryCount, appended, clears, cleared, seen,
                   gemini_ready, chat, recorded>>

\* lines 122-125, right-hand side: the list comprehension builds a new list
RL_Prune(h) ==
    /\ pc[h] = "rl_prune"
    /\ pc' = [pc EXCEPT ![h] = "rl_assign"]
    /\ loc' = [loc EXCEPT ![h].tmp = Pruned(rate_limit_tracker[loc[h].arg], loc[h].aux)]
    /\ UNCHANGED <<now, rate_limit_tracker, active_sessions, user_contexts,
                   conversation_history, sessions_lock, history_lock, calls, admitted, denied,
                   touched, lastTouch, entryCount, appended, clears, cleared, seen,
                   gemini_ready, chat, recorded>>

\* line 122, the store: rate_limit_tracker[client_ip] = <new list>
RL_Assign(h) ==
    /\ pc[h] = "rl_assign"
    /\ pc' = [pc EXCEPT ![h] = "rl_len"]
    /\ rate_limit_tracker' = [rate_limit_tracker EXCEPT ![loc[h].arg] = loc[h].tmp]
    /\ UNCHANGED <<now, loc, active_sessions, user_contexts,
                   conversation_history, sessions_lock, history_lock, calls, admitted, denied,
                   touched, lastTouch, entryCount, appended, clears, cleared, seen,
                   gemini_ready, chat, recorded>>

\* faulty variant: a denied check is appended to the window as well
RL_LenRecording(h) ==
    /\ pc[h] = "rl_len"
    /\ IF OverLimit(rate_limit_tracker[loc[h].arg])
       THEN /\ pc' = [pc EXCEPT ![h] = "rl_done"]
            /\ loc' = [loc EXCEPT ![h].res = TRUE]
            /\ denied' = [denied EXCEPT ![loc[h].arg] = @ + 1]
            /\ rate_limit_tracker' = [rate_limit_tracker EXCEPT
                                        ![loc[h].arg] = Append(@, loc[h].t)]
       ELSE /\ pc' = [pc EXCEPT ![h] = "rl_append"]
            /\ UNCHANGED <<loc, denied, rate_limit_tracker>>
    /\ UNCHANGED <<now, active_sessions, user_contexts,
                   conversation_history, sessions_lock, history_lock, calls, admitted,
                   touched, lastTouch, entryCount, appended, clears, cleared, seen,
                   gemini_ready, chat, recorded>>

\* lines 127-128: if len(...) >= RATE_LIMIT_PER_MINUTE: return True
RL_Len(h) ==
    /\ pc[h] = "rl_len"
    /\ IF OverLimit(rate_limit_tracker[loc[h].arg])
       THEN /\ pc' = [pc EXCEPT ![h] = "rl_done"]
            /\ loc' = [loc EXCEPT ![h].res = TRUE]
            /\ denied' = [denied EXCEPT ![loc[h].arg] = @ + 1]
       ELSE /\ pc' = [pc EXCEPT ![h] = "rl_append"]
            /\ UNCHANGED <<loc, denied,
                   gemini_ready, chat, recorded>>
    /\ UNCHANGED <<now, rate_limit_tracker, active_sessions, user_contexts,
                   conversation_history, sessions_lock, history_lock, calls, admitted,
                   touched, lastTouch, entryCount, appended, clears, cleared, seen,
                   gemini_ready, chat, recorded>>

\* lines 130-131: rate_limit_tracker[client_ip].append(current_time); return False
RL_Append(h) ==
    /\ pc[h] = "rl_append"
    /\ pc' = [pc EXCEPT ![h] = "rl_done"]
    /\ rate_limit_tracker' = [rate_limit_tracker EXCEPT
                                ![loc[h].arg] = Append(@, loc[h].t)]
    /\ admitted' = [admitted EXCEPT ![loc[h].arg] = Append(@, loc[h].t)]
    /\ loc' = [loc EXCEPT ![h].res = FALSE]
    /\ UNCHANGED <<now, active_sessions, user_contexts,
                   conversation_history, sessions_lock, history_lock, calls, denied,
                   touched, lastTouch, entryCount, appended, clears, cleared, seen,
                   gemini_ready, chat, recorded>>

RateStep(h) ==
    \/ \E key \in Keys : RL_Call(h, key)
    \/ RL_Check(h)
    \/ RL_Init(h)
    \/ RL_Prune(h)
    \/ RL_Assign(h)
    \/ RL_Len(h)
    \/ RL_Append(h)

---------------------------------------------------------------------------
(* threading.Lock, app.py:86-87: acquired by `with`, only when free *)
\* faulty variant: no mutual exclusion
LockIgnored(lock) == TRUE
CanAcquire(lock) == lock = 0

\* the end of a with block: the lock is free again
\* faulty variant: the handler leaves the block with the lock still held
KeptBy(h) == h
Released(h) == 0

---------------------------------------------------------------------------
(* Text: a str is the sequence of its characters; a reply assembled from    *)
(* fixed literals keeps each literal as one element.                        *)

UpperCase == <<"A", "B", "C", "D", "E", "F", "G", "H", "I", "J", "K", "L", "M",
               "N", "O", "P", "Q", "R", "S", "T", "U", "V", "W", "X", "Y", "Z">>
LowerCase == <<"a", "b", "c", "d", "e", "f", "g", "h", "i", "j", "k", "l", "m",
               "n", "o", "p", "q", "r", "s", "t", "u", "v", "w", "x", "y", "z">>

\* str.lower(), str.upper() on one character
LowerChar(c) ==
    IF \E i \in DOMAIN UpperCase : UpperCase[i] = c
    THEN LowerCase[CHOOSE i \in DOMAIN UpperCase : UpperCase[i] = c] ELSE c
UpperChar(c) ==
    IF \E i \in DOMAIN LowerCase : LowerCase[i] = c
    THEN UpperCase[CHOOSE i \in DOMAIN LowerCase : LowerCase[i] = c] ELSE c

\* str.lower()
Lower(text) == [i \in DOMAIN text |-> LowerChar(text[i])]

\* str.capitalize(): first character upper case, the rest lower case
Capitalize(text) ==
    [i \in DOMAIN text |-> IF i = 1 THEN UpperChar(text[i]) ELSE LowerChar(text[i])]

\* regex classes \w and \s
IsWordChar(c) ==
    \/ \E i \in DOMAIN UpperCase : c = UpperCase[i] \/ c = LowerCase[i]
    \/ c \in {"0", "1", "2", "3", "4", "5", "6", "7", "8", "9", "_"}
IsSpace(c) == c \in {" ", "\n", "\t"}

\* text[i:i+len(pat)] == pat
OccursAt(text, pat, i) ==
    /\ i >= 1
    /\ i + Len(pat) - 1 <= Len(text)
    /\ SubSeq(text, i, i + Len(pat) - 1) = pat

\* pat in text
Contains(text, pat) == \E i \in 1..Len(text) : OccursAt(text, pat, i)

\* re.search(r'\b(pat)\b', text) for a pattern that starts and ends with a
\* word character
OccursAsWord(text, pat) ==
    \E i \in 1..Len(text) :
        /\ OccursAt(text, pat, i)
        /\ i = 1 \/ ~IsWordChar(text[i - 1])
        /\ i + Len(pat) - 1 = Len(text) \/ ~IsWordChar(text[i + Len(pat)])

---------------------------------------------------------------------------
(* SessionManager, app.py:137-195 *)

\* datetime.isoformat() / datetime.fromisoformat(), lines 146-147, 173, 188
IsoFormat(t) == <<"iso", t>>
FromIsoFormat(str) == str[2]

\* line 141: uuid.uuid4(), an identifier no session and no other creator has
IdsInUse == {s \in SessionIds : active_sessions[s] # NoSession}
              \cup {loc[h].tmp : h \in {g \in Handlers : pc[g] \in {"cs_lock", "cs_sess", "cs_ctx"}}}
Uuid4 == CHOOSE s \in SessionIds : s \notin IdsInUse /\ \A r \in SessionIds : r < s => r \in IdsInUse

\* lines 145-150
NewSession(t, ip) ==
    [created |-> IsoFormat(t), last_activity |-> IsoFormat(t), user_ip |-> ip,
     message_count |-> 0]

\* lines 152-160
EmptyContext ==
    [conversation_history |-> <<>>, user_name |-> <<>>, topics_discussed |-> <<>>,
     mood |-> "neutral", preferences |-> <<>>, last_topic |-> "None",
     interaction_count |-> 0]

\* line 184: not session_id or session_id not in active_sessions
UnknownSession(sid) == sid = EmptyId \/ active_sessions[sid] = NoSession

\* lines 188-191: last_activity > datetime.now() - timedelta(hours=24)
\* faulty variant: timedelta(days=...) instead of timedelta(hours=...)
NotExpiredInDays(last_activity, t) == last_activity > t - 24 * SESSION_TIMEOUT_HOURS
NotExpired(last_activity, t) == last_activity > t - SESSION_TIMEOUT_HOURS

\* call + lines 141-142
CS_Call(h, ip) ==
    /\ Ready(h)
    /\ calls < MaxCalls
    /\ SessionIds \ IdsInUse # {}
    /\ pc' = [pc EXCEPT ![h] = "cs_lock"]
    /\ calls' = calls + 1
    /\ loc' = [loc EXCEPT ![h] = [NoLocals EXCEPT !.arg = ip, !.t = now, !.tmp = Uuid4]]
    /\ UNCHANGED <<now, rate_limit_tracker, active_sessions, user_contexts,
                   conversation_history, sessions_lock, history_lock, admitted, denied,
                   touched, lastTouch, entryCount, appended, clears, cleared, seen,
                   gemini_ready, chat, recorded>>

\* line 144: with sessions_lock
CS_Lock(h) ==
    /\ pc[h] = "cs_lock"
    /\ CanAcquire(sessions_lock)
    /\ pc' = [pc EXCEPT ![h] = "cs_sess"]
    /\ sessions_lock' = h
    /\ UNCHANGED <<now, loc, rate_limit_tracker, active_sessions, user_contexts,
                   conversation_history, history_lock, calls, admitted, denied,
                   touched, lastTouch, entryCount, appended, clears, cleared, seen,
                   gemini_ready, chat, recorded>>

\* lines 145-150: active_sessions[session_id] = {...}
CS_Sess(h) ==
    /\ pc[h] = "cs_sess"
    /\ pc' = [pc EXCEPT ![h] = "cs_ctx"]
    /\ active_sessions' = [active_sessions EXCEPT
                             ![loc[h].tmp] = NewSession(loc[h].t, loc[h].arg)]
    /\ lastTouch' = [lastTouch EXCEPT ![loc[h].tmp] = loc[h].t]
    /\ UNCHANGED <<now, loc, rate_limit_tracker, user_contexts,
                   conversation_history, sessions_lock, history_lock, calls, admitted, denied,
                   touched, entryCount, appended, clears, cleared, seen,
                   gemini_ready, chat, recorded>>

\* faulty variant: create_session returns without leaving its with block
CS_CtxKeepsLock(h) ==
    /\ pc[h] = "cs_ctx"
    /\ pc' = [pc EXCEPT ![h] = "cs_done"]
    /\ user_contexts' = [user_contexts EXCEPT ![loc[h].tmp] = EmptyContext]
    /\ loc' = [loc EXCEPT ![h].res = loc[h].tmp]
    /\ UNCHANGED <<now, rate_limit_tracker, active_sessions, sessions_lock,
                   conversation_history, history_lock, calls, admitted, denied,
                   touched, lastTouch, entryCount, appended, clears, cleared, seen,
                   gemini_ready, chat, recorded>>

\* lines 152-162: user_contexts[session_id] = {...}; the lock is released;
\* return session_id
CS_Ctx(h) ==
    /\ pc[h] = "cs_ctx"
    /\ pc' = [pc EXCEPT ![h] = "cs_done"]
    /\ user_contexts' = [user_contexts EXCEPT ![loc[h].tmp] = EmptyContext]
    /\ sessions_lock' = Released(h)
    /\ loc' = [loc EXCEPT ![h].res = loc[h].tmp]
    /\ UNCHANGED <<now, rate_limit_tracker, active_sessions,
                   conversation_history, history_lock, calls, admitted, denied,
                   touched, lastTouch, entryCount, appended, clears, cleared, seen,
                   gemini_ready, chat, recorded>>

\* call of update_session(session_id)
US_Call(h, sid) ==
    /\ Ready(h)
    /\ calls < MaxCalls
    /\ pc' = [pc EXCEPT ![h] = "us_lock"]
    /\ calls' = calls + 1
    /\ loc' = [loc EXCEPT ![h] = [NoLocals EXCEPT !.arg = sid]]
    /\ UNCHANGED <<now, rate_limit_tracker, active_sessions, user_contexts,
                   conversation_history, sessions_lock, history_lock, admitted, denied,
                   touched, lastTouch, entryCount, appended, clears, cleared, seen,
                   gemini_ready, chat, recorded>>

\* line 171: with sessions_lock
US_Lock(h) ==
    /\ pc[h] = "us_lock"
    /\ CanAcquire(sessions_lock)
    /\ pc' = [pc EXCEPT ![h] = "us_check"]
    /\ sessions_lock' = h
    /\ UNCHANGED <<now, loc, rate_limit_tracker, active_sessions, user_contexts,
                   conversation_history, history_lock, calls, admitted, denied,
                   touched, lastTouch, entryCount, appended, clears, cleared, seen,
                   gemini_ready, chat, recorded>>

\* line 172: if session_id in active_sessions; else (or on the TypeError of an
\* unhashable id, lines 177-179) the lock is released and False returned
US_Check(h) ==
    /\ pc[h] = "us_check"
    /\ IF loc[h].arg # BadId /\ ~UnknownSession(loc[h].arg)
       THEN /\ pc' = [pc EXCEPT ![h] = "us_last"]
            /\ UNCHANGED <<loc, sessions_lock,
                   gemini_ready, chat, recorded>>
       ELSE /\ pc' = [pc EXCEPT ![h] = "us_done"]
            /\ loc' = [loc EXCEPT ![h].res = FALSE]
            /\ sessions_lock' = Released(h)
    /\ UNCHANGED <<now, rate_limit_tracker, active_sessions, user_contexts,
                   conversation_history, history_lock, calls, admitted, denied,
                   touched, lastTouch, entryCount, appended, clears, cleared, seen,
                   gemini_ready, chat, recorded>>

\* line 173: active_sessions[session_id]['last_activity'] = datetime.now().isoformat()
US_Last(h) ==
    /\ pc[h] = "us_last"
    /\ pc' = [pc EXCEPT ![h] = "us_read"]
    /\ active_sessions' = [active_sessions EXCEPT
                             ![loc[h].arg].last_activity = IsoFormat(now)]
    /\ lastTouch' = [lastTouch EXCEPT ![loc[h].arg] = now]
    /\ UNCHANGED <<now, loc, rate_limit_tracker, user_contexts,
                   conversation_history, sessions_lock, history_lock, calls, admitted, denied,
                   touched, entryCount, appended, clears, cleared, seen,
                   gemini_ready, chat, recorded>>

\* line 174, the read of: active_sessions[session_id]['message_count'] += 1
US_Read(h) ==
    /\ pc[h] = "us_read"
    /\ pc' = [pc EXCEPT ![h] = "us_write"]
    /\ loc' = [loc EXCEPT ![h].tmp = active_sessions[loc[h].arg].message_count]
    /\ UNCHANGED <<now, rate_limit_tracker, active_sessions, user_contexts,
                   conversation_history, sessions_lock, history_lock, calls, admitted, denied,
                   touched, lastTouch, entryCount, appended, clears, cleared, seen,
                   gemini_ready, chat, recorded>>

\* line 174, the write; line 175: return True; the lock is released
US_Write(h) ==
    /\ pc[h] = "us_write"
    /\ pc' = [pc EXCEPT ![h] = "us_done"]
    /\ active_sessions' = [active_sessions EXCEPT
                             ![loc[h].arg].message_count = loc[h].tmp + 1]
    /\ touched' = [touched EXCEPT ![loc[h].arg] = @ + 1]
    /\ sessions_lock' = Released(h)
    /\ loc' = [loc EXCEPT ![h].res = TRUE]
    /\ UNCHANGED <<now, rate_limit_tracker, user_contexts,
                   conversation_history, history_lock, calls, admitted, denied,
                   lastTouch, entryCount, appended, clears, cleared, seen,
                   gemini_ready, chat, recorded>>

\* call of is_valid_session(session_id)
IV_Call(h, sid) ==
    /\ Ready(h)
    /\ calls < MaxCalls
    /\ pc' = [pc EXCEPT ![h] = "iv_check"]
    /\ calls' = calls + 1
    /\ loc' = [loc EXCEPT ![h] = [NoLocals EXCEPT !.arg = sid]]
    /\ UNCHANGED <<now, rate_limit_tracker, active_sessions, user_contexts,
                   conversation_history, sessions_lock, history_lock, admitted, denied,
                   touched, lastTouch, entryCount, appended, clears, cleared, seen,
                   gemini_ready, chat, recorded>>

\* lines 184-185 (no lock is taken); the TypeError of an unhashable id is
\* caught at lines 193-195: return False
IV_Check(h) ==
    /\ pc[h] = "iv_check"
    /\ IF loc[h].arg = BadId \/ UnknownSession(loc[h].arg)
       THEN /\ pc' = [pc EXCEPT ![h] = "iv_done"]
            /\ loc' = [loc EXCEPT ![h].res = FALSE, ![h].aux = "unknown"]
       ELSE /\ pc' = [pc EXCEPT ![h] = "iv_read"]
            /\ loc' = loc
    /\ UNCHANGED <<now, rate_limit_tracker, active_sessions, user_contexts,
                   conversation_history, sessions_lock, history_lock, calls, admitted, denied,
                   touched, lastTouch, entryCount, appended, clears, cleared, seen,
                   gemini_ready, chat, recorded>>

\* lines 187-191
IV_Read(h) ==
    /\ pc[h] = "iv_read"
    /\ pc' = [pc EXCEPT ![h] = "iv_done"]
    /\ loc' = [loc EXCEPT
                 ![h].res = NotExpired(
                     FromIsoFormat(active_sessions[loc[h].arg].last_activity), now),
                 ![h].t = now,
                 ![h].aux = "known"]
    /\ UNCHANGED <<now, rate_limit_tracker, active_sessions, user_contexts,
                   conversation_history, sessions_lock, history_lock, calls, admitted, denied,
                   touched, lastTouch, entryCount, appended, clears, cleared, seen,
                   gemini_ready, chat, recorded>>

SessionArgs == SessionIds \cup {EmptyId, BadId}

SessionStep(h) ==
    \/ \E ip \in GoodKeys : CS_Call(h, ip)
    \/ CS_Lock(h)
    \/ CS_Sess(h)
    \/ CS_Ctx(h)
    \/ \E sid \in SessionArgs : US_Call(h, sid)
    \/ US_Lock(h)
    \/ US_Check(h)
    \/ US_Last(h)
    \/ US_Read(h)
    \/ US_Write(h)
    \/ \E sid \in SessionArgs : IV_Call(h, sid)
    \/ IV_Check(h)
    \/ IV_Read(h)

---------------------------------------------------------------------------
(* HistoryManager, app.py:197-247, and its routes, app.py:779-804 *)

\* str(x).strip(), lines 211-212: leading and trailing blanks removed
RECURSIVE LStrip(_)
LStrip(text) == IF text # <<>> /\ IsSpace(Head(text)) THEN LStrip(Tail(text)) ELSE text
RECURSIVE RStrip(_)
RStrip(text) ==
    IF text # <<>> /\ IsSpace(text[Len(text)])
    THEN RStrip(SubSeq(text, 1, Len(text) - 1)) ELSE text
Strip(text) == RStrip(LStrip(text))

\* lines 206-216 (the id is uuid4: the number of the entry; the clock fields
\* and response_time play no part in the log's order)
\* faulty variant: the reply is stored as the user text and the user text as
\* the reply
NewEntrySwapped(id, user_msg, bot_reply, session_id) ==
    [id |-> id, user |-> Strip(bot_reply), bot |-> Strip(user_msg),
     session_id |-> session_id]
NewEntry(id, user_msg, bot_reply, session_id) ==
    [id |-> id, user |-> Strip(user_msg), bot |-> Strip(bot_reply),
     session_id |-> session_id]

\* Python's seq[start:]
SliceFrom(seq, start) ==
    LET n == Len(seq)
        from == IF start < 0 THEN Max(n + start, 0) ELSE Min(start, n)
    IN  SubSeq(seq, from + 1, n)

\* line 233: conversation_history[-limit:] if conversation_history else []
\* faulty variant: conversation_history[:limit]
FirstEntries(log, limit) == IF log # <<>> THEN SubSeq(log, 1, Min(Max(limit, 0), Len(log))) ELSE <<>>
LastEntries(log, limit) == IF log # <<>> THEN SliceFrom(log, -limit) ELSE <<>>

\* line 234: list(reversed(recent_conversations))
Reversed(seq) == [i \in 1..Len(seq) |-> seq[Len(seq) + 1 - i]]

\* line 784: limit = min(limit, 500)
CappedLimit(limit) == Min(limit, HISTORY_READ_CAP)

\* lines 220-221: if len(conversation_history) > MAX_HISTORY_ENTRIES: pop(0)
\* faulty variant: eviction with >= instead of >
EvictedAtCapacity(log) == IF Len(log) >= MAX_HISTORY_ENTRIES THEN Tail(log) ELSE log
Evicted(log) == IF Len(log) > MAX_HISTORY_ENTRIES THEN Tail(log) ELSE log

\* line 243: conversation_history.clear()
\* faulty variant: a local name is rebound, the global list is untouched
ClearedLocalOnly(log) == log
Cleared(log) == <<>>

\* the log values a running reader's call has overlapped
Readers == {h \in Handlers : pc[h] \in {"gr_lock", "gr_slice", "gr_rev"}}
SeenWith(log) == [h \in Handlers |-> IF h \in Readers THEN seen[h] \cup {log} ELSE seen[h]]

Texts == {<<"a">>, <<" ", "a", " ">>}

\* call + lines 205-216
AC_Call(h, user_msg, bot_reply, session_id) ==
    /\ Ready(h)
    /\ entryCount < MaxAppends
    /\ pc' = [pc EXCEPT ![h] = "ac_lock"]
    /\ entryCount' = entryCount + 1
    /\ loc' = [loc EXCEPT ![h] = [NoLocals EXCEPT
                 !.arg = NewEntry(entryCount + 1, user_msg, bot_reply, session_id)]]
    /\ seen' = [seen EXCEPT ![h] = {}]
    /\ UNCHANGED <<now, calls, rate_limit_tracker, admitted, denied, active_sessions, user_contexts, sessions_lock, touched, lastTouch, conversation_history, history_lock, appended, clears, cleared,
                   gemini_ready, chat, recorded>>

\* line 218: with history_lock
AC_Lock(h) ==
    /\ pc[h] = "ac_lock"
    /\ CanAcquire(history_lock)
    /\ pc' = [pc EXCEPT ![h] = "ac_append"]
    /\ history_lock' = h
    /\ UNCHANGED <<now, loc, calls, rate_limit_tracker, admitted, denied, active_sessions, user_contexts, sessions_lock, touched, lastTouch, conversation_history, entryCount, appended, clears, cleared, seen,
                   gemini_ready, chat, recorded>>

\* line 219: conversation_history.append(entry)
AC_Append(h) ==
    /\ pc[h] = "ac_append"
    /\ pc' = [pc EXCEPT ![h] = "ac_evict"]
    /\ conversation_history' = Append(conversation_history, loc[h].arg)
    /\ appended' = Append(appended, loc[h].arg)
    /\ cleared' = FALSE
    /\ seen' = SeenWith(conversation_history')
    /\ UNCHANGED <<now, loc, calls, rate_limit_tracker, admitted, denied, active_sessions, user_contexts, sessions_lock, touched, lastTouch, history_lock, entryCount, clears,
                   gemini_ready, chat, recorded>>

\* lines 220-223: evict the oldest beyond capacity; the lock is released;
\* return entry
AC_Evict(h) ==
    /\ pc[h] = "ac_evict"
    /\ pc' = [pc EXCEPT ![h] = "ac_done"]
    /\ conversation_history' = Evicted(conversation_history)
    /\ seen' = SeenWith(conversation_history')
    /\ history_lock' = Released(h)
    /\ loc' = [loc EXCEPT ![h].res = loc[h].arg]
    /\ UNCHANGED <<now, calls, rate_limit_tracker, admitted, denied, active_sessions, user_contexts, sessions_lock, touched, lastTouch, entryCount, appended, clears, cleared,
                   gemini_ready, chat, recorded>>

\* GET /api/history, lines 783-785: limit = min(limit, 500), then
\* get_recent_conversations(limit)
GR_Call(h, limit) ==
    /\ Ready(h)
    /\ calls < MaxReads
    /\ pc' = [pc EXCEPT ![h] = "gr_lock"]
    /\ calls' = calls + 1
    /\ loc' = [loc EXCEPT ![h] = [NoLocals EXCEPT !.arg = CappedLimit(limit),
                                                  !.aux = limit]]
    /\ seen' = [seen EXCEPT ![h] = {conversation_history}]
    /\ UNCHANGED <<now, rate_limit_tracker, admitted, denied, active_sessions, user_contexts, sessions_lock, touched, lastTouch, conversation_history, history_lock, entryCount, appended, clears, cleared,
                   gemini_ready, chat, recorded>>

\* line 232: with history_lock
GR_Lock(h) ==
    /\ pc[h] = "gr_lock"
    /\ CanAcquire(history_lock)
    /\ pc' = [pc EXCEPT ![h] = "gr_slice"]
    /\ history_lock' = h
    /\ UNCHANGED <<now, loc, calls, rate_limit_tracker, admitted, denied, active_sessions, user_contexts, sessions_lock, touched, lastTouch, conversation_history, entryCount, appended, clears, cleared, seen,
                   gemini_ready, chat, recorded>>

\* line 233 (loc.t notes whether the log was last changed by a clear())
GR_Slice(h) ==
    /\ pc[h] = "gr_slice"
    /\ pc' = [pc EXCEPT ![h] = "gr_rev"]
    /\ loc' = [loc EXCEPT ![h].tmp = LastEntries(conversation_history, loc[h].arg),
                          ![h].t = cleared]
    /\ UNCHANGED <<now, calls, rate_limit_tracker, admitted, denied, active_sessions, user_contexts, sessions_lock, touched, lastTouch, conversation_history, history_lock, entryCount, appended, clears, cleared, seen,
                   gemini_ready, chat, recorded>>

\* line 234: return list(reversed(...)); the lock is released
GR_Rev(h) ==
    /\ pc[h] = "gr_rev"
    /\ pc' = [pc EXCEPT ![h] = "gr_done"]
    /\ loc' = [loc EXCEPT ![h].res = Reversed(loc[h].tmp)]
    /\ history_lock' = Released(h)
    /\ UNCHANGED <<now, calls, rate_limit_tracker, admitted, denied, active_sessions, user_contexts, sessions_lock, touched, lastTouch, conversation_history, entryCount, appended, clears, cleared, seen,
                   gemini_ready, chat, recorded>>

\* POST /api/history/clear, line 800: HistoryManager.clear_history()
CH_Call(h) ==
    /\ Ready(h)
    /\ calls < MaxReads
    /\ pc' = [pc EXCEPT ![h] = "ch_lock"]
    /\ calls' = calls + 1
    /\ loc' = [loc EXCEPT ![h] = NoLocals]
    /\ seen' = [seen EXCEPT ![h] = {}]
    /\ UNCHANGED <<now, rate_limit_tracker, admitted, denied, active_sessions, user_contexts, sessions_lock, touched, lastTouch, conversation_history, history_lock, entryCount, appended, clears, cleared,
                   gemini_ready, chat, recorded>>

\* line 242: with history_lock
CH_Lock(h) ==
    /\ pc[h] = "ch_lock"
    /\ CanAcquire(history_lock)
    /\ pc' = [pc EXCEPT ![h] = "ch_clear"]
    /\ history_lock' = h
    /\ UNCHANGED <<now, loc, calls, rate_limit_tracker, admitted, denied, active_sessions, user_contexts, sessions_lock, touched, lastTouch, conversation_history, entryCount, appended, clears, cleared, seen,
                   gemini_ready, chat, recorded>>

\* lines 243-244: conversation_history.clear(); the lock is released;
\* return True
CH_Clear(h) ==
    /\ pc[h] = "ch_clear"
    /\ pc' = [pc EXCEPT ![h] = "ch_done"]
    /\ conversation_history' = Cleared(conversation_history)
    /\ appended' = <<>>
    /\ clears' = clears + 1
    /\ cleared' = TRUE
    /\ seen' = SeenWith(conversation_history')
    /\ history_lock' = Released(h)
    /\ loc' = [loc EXCEPT ![h].res = TRUE]
    /\ UNCHANGED <<now, calls, rate_limit_tracker, admitted, denied, active_sessions, user_contexts, sessions_lock, touched, lastTouch, entryCount,
                   gemini_ready, chat, recorded>>

Limits == (0..MaxLimit) \cup {-1}

HistoryStep(h) ==
    \/ \E user_msg \in Texts : AC_Call(h, user_msg, <<"r", " ">>, 1)
    \/ AC_Lock(h)
    \/ AC_Append(h)
    \/ AC_Evict(h)
    \/ \E limit \in Limits : GR_Call(h, limit)
    \/ GR_Lock(h)
    \/ GR_Slice(h)
    \/ GR_Rev(h)
    \/ CH_Call(h)
    \/ CH_Lock(h)
    \/ CH_Clear(h)

---------------------------------------------------------------------------
(* ConversationEnhancer.update_context, app.py:253-304 *)

NoName == <<>>                  \* user_name is None

\* lines 272-284: the first mood whose keyword occurs in the lowered message
ContainsAny(text, words) == \E w \in words : Contains(text, w)
DetectMood(user_msg) ==
    LET user_lower == Lower(user_msg)
        positive == {<<"g", "r", "e", "a", "t">>, <<"a", "w", "e", "s", "o", "m", "e">>, <<"l", "o", "v", "e">>, <<"e", "x", "c", "i", "t", "e", "d">>, <<"h", "a", "p", "p", "y">>}
        negative == {<<"s", "a", "d">>, <<"a", "n", "g", "r", "y">>, <<"f", "r", "u", "s", "t", "r", "a", "t", "e", "d">>, <<"d", "i", "s", "a", "p", "p", "o", "i", "n", "t", "e", "d">>}
        neutral == {<<"o", "k", "a", "y">>, <<"f", "i", "n", "e">>, <<"a", "l", "r", "i", "g", "h", "t">>}
    IN  IF ContainsAny(user_lower, positive) THEN "positive"
        ELSE IF ContainsAny(user_lower, negative) THEN "negative"
        ELSE IF ContainsAny(user_lower, neutral) THEN "neutral"
        ELSE "neutral"

\* lines 287-292
Exchange(user_msg, bot_reply, t, mood) ==
    [user |-> user_msg, bot |-> bot_reply, timestamp |-> IsoFormat(t), mood |-> mood]

\* line 296: conversation_history[-10:]
\* faulty variant: the slice keeps the oldest exchanges
OldestExchanges(history) == SubSeq(history, 1, Min(Len(history), MAX_CONTEXT_EXCHANGES))
LatestExchanges(history) == SliceFrom(history, -MAX_CONTEXT_EXCHANGES)

\* line 299: re.search(r'(?:my name is|call me|i am|i\'m)\s+(\w+)', ...)
NamePhrases == {<<"m", "y", " ", "n", "a", "m", "e", " ", "i", "s">>, <<"c", "a", "l", "l", " ", "m", "e">>, <<"i", " ", "a", "m">>, <<"i", "'", "m">>}
\* the first index >= k that holds no white space (Len + 1 if there is none)
SkipSpaces(text, k) ==
    CHOOSE j \in k..(Len(text) + 1) :
        /\ j = Len(text) + 1 \/ ~IsSpace(text[j])
        /\ \A m \in k..(j - 1) : IsSpace(text[m])
\* the last index of the run of word characters that starts at j
WordEnd(text, j) ==
    CHOOSE e \in j..Len(text) :
        /\ \A m \in j..e : IsWordChar(text[m])
        /\ e = Len(text) \/ ~IsWordChar(text[e + 1])
\* the pattern matches with its first character at index i
NameMatchAt(text, i) ==
    \E p \in NamePhrases :
        /\ OccursAt(text, p, i)
        /\ i + Len(p) <= Len(text)
        /\ IsSpace(text[i + Len(p)])
        /\ SkipSpaces(text, i + Len(p)) <= Len(text)
        /\ IsWordChar(text[SkipSpaces(text, i + Len(p))])
NameMatch(text) == \E i \in 1..Len(text) : NameMatchAt(text, i)
\* re.search returns the leftmost match
NameStart(text) ==
    CHOOSE i \in 1..Len(text) :
        NameMatchAt(text, i) /\ \A k \in 1..(i - 1) : ~NameMatchAt(text, k)
\* name_match.group(1)
NameGroup(text) ==
    LET i == NameStart(text)
        p == CHOOSE q \in NamePhrases : OccursAt(text, q, i)
        j == SkipSpaces(text, i + Len(p))
    IN  SubSeq(text, j, WordEnd(text, j))
\* lines 299-301: the name the message sets, NoName if it sets none
ExtractedName(user_msg) ==
    IF NameMatch(Lower(user_msg)) THEN Capitalize(NameGroup(Lower(user_msg))) ELSE NoName

\* call
UC_Call(h, session_id, user_msg, bot_reply) ==
    /\ Ready(h)
    /\ calls < MaxOps
    /\ pc' = [pc EXCEPT ![h] = "uc_check"]
    /\ calls' = calls + 1
    /\ loc' = [loc EXCEPT ![h] = [NoLocals EXCEPT !.arg = session_id,
                                     !.aux = [user |-> user_msg, bot |-> bot_reply]]]
    /\ UNCHANGED <<now, rate_limit_tracker, active_sessions, user_contexts,
                   conversation_history, sessions_lock, history_lock, admitted, denied,
                   touched, lastTouch, entryCount, appended, clears, cleared, seen,
                   gemini_ready, chat, recorded>>

\* line 256: if session_id not in user_contexts; an unhashable id raises
\* TypeError, which line 303 catches
UC_Check(h) ==
    /\ pc[h] = "uc_check"
    /\ pc' = [pc EXCEPT ![h] = IF loc[h].arg \notin SessionIds THEN "uc_done"
                               ELSE IF user_contexts[loc[h].arg] = NoContext THEN "uc_init"
                               ELSE "uc_read"]
    /\ UNCHANGED <<now, loc, rate_limit_tracker, active_sessions, user_contexts,
                   conversation_history, sessions_lock, history_lock, calls, admitted,
                   denied, touched, lastTouch, entryCount, appended, clears, cleared, seen,
                   gemini_ready, chat, recorded>>

\* lines 258-266: user_contexts[session_id] = {...}
UC_Init(h) ==
    /\ pc[h] = "uc_init"
    /\ pc' = [pc EXCEPT ![h] = "uc_read"]
    /\ user_contexts' = [user_contexts EXCEPT ![loc[h].arg] = EmptyContext]
    /\ UNCHANGED <<now, loc, rate_limit_tracker, active_sessions,
                   conversation_history, sessions_lock, history_lock, calls, admitted,
                   denied, touched, lastTouch, entryCount, appended, clears, cleared, seen,
                   gemini_ready, chat, recorded>>

\* lines 268-269: context['interaction_count'] += 1, the load
UC_Read(h) ==
    /\ pc[h] = "uc_read"
    /\ pc' = [pc EXCEPT ![h] = "uc_write"]
    /\ loc' = [loc EXCEPT ![h].tmp = user_contexts[loc[h].arg].interaction_count]
    /\ UNCHANGED <<now, rate_limit_tracker, active_sessions, user_contexts,
                   conversation_history, sessions_lock, history_lock, calls, admitted,
                   denied, touched, lastTouch, entryCount, appended, clears, cleared, seen,
                   gemini_ready, chat, recorded>>

\* line 269: context['interaction_count'] += 1, the store
UC_Write(h) ==
    /\ pc[h] = "uc_write"
    /\ pc' = [pc EXCEPT ![h] = "uc_mood"]
    /\ user_contexts' = [user_contexts EXCEPT
                           ![loc[h].arg].interaction_count = loc[h].tmp + 1]
    /\ UNCHANGED <<now, loc, rate_limit_tracker, active_sessions,
                   conversation_history, sessions_lock, history_lock, calls, admitted,
                   denied, touched, lastTouch, entryCount, appended, clears, cleared, seen,
                   gemini_ready, chat, recorded>>

\* lines 278-284: context['mood'] = detected_mood
UC_Mood(h) ==
    /\ pc[h] = "uc_mood"
    /\ pc' = [pc EXCEPT ![h] = "uc_append"]
    /\ user_contexts' = [user_contexts EXCEPT
                           ![loc[h].arg].mood = DetectMood(loc[h].aux.user)]
    /\ loc' = [loc EXCEPT ![h].res = DetectMood(loc[h].aux.user)]
    /\ UNCHANGED <<now, rate_limit_tracker, active_sessions,
                   conversation_history, sessions_lock, history_lock, calls, admitted,
                   denied, touched, lastTouch, entryCount, appended, clears, cleared, seen,
                   gemini_ready, chat, recorded>>

\* lines 287-292: context['conversation_history'].append({...})
UC_Append(h) ==
    /\ pc[h] = "uc_append"
    /\ pc' = [pc EXCEPT ![h] = "uc_len"]
    /\ LET e == Exchange(loc[h].aux.user, loc[h].aux.bot, now, loc[h].res)
       IN  /\ user_contexts' = [user_contexts EXCEPT
                 ![loc[h].arg].conversation_history = Append(@, e)]
           /\ recorded' = [recorded EXCEPT ![loc[h].arg] = Append(@, e)]
    /\ UNCHANGED <<now, loc, rate_limit_tracker, active_sessions,
                   conversation_history, sessions_lock, history_lock, calls, admitted,
                   denied, touched, lastTouch, entryCount, appended, clears, cleared, seen,
                   gemini_ready, chat>>

\* lines 295-296: if len(...) > 10, the slice [-10:] is taken
UC_Len(h) ==
    /\ pc[h] = "uc_len"
    /\ IF Len(user_contexts[loc[h].arg].conversation_history) > MAX_CONTEXT_EXCHANGES
       THEN /\ pc' = [pc EXCEPT ![h] = "uc_trim"]
            /\ loc' = [loc EXCEPT ![h].tmp =
                          LatestExchanges(user_contexts[loc[h].arg].conversation_history)]
       ELSE /\ pc' = [pc EXCEPT ![h] = "uc_name"]
            /\ UNCHANGED loc
    /\ UNCHANGED <<now, rate_limit_tracker, active_sessions, user_contexts,
                   conversation_history, sessions_lock, history_lock, calls, admitted,
                   denied, touched, lastTouch, entryCount, appended, clears, cleared, seen,
                   gemini_ready, chat, recorded>>

\* line 296: context['conversation_history'] = <the slice>
UC_Trim(h) ==
    /\ pc[h] = "uc_trim"
    /\ pc' = [pc EXCEPT ![h] = "uc_name"]
    /\ user_contexts' = [user_contexts EXCEPT
                           ![loc[h].arg].conversation_history = loc[h].tmp]
    /\ UNCHANGED <<now, loc, rate_limit_tracker, active_sessions,
                   conversation_history, sessions_lock, history_lock, calls, admitted,
                   denied, touched, lastTouch, entryCount, appended, clears, cleared, seen,
                   gemini_ready, chat, recorded>>

\* lines 299-301: context['user_name'] = name_match.group(1).capitalize()
UC_Name(h) ==
    /\ pc[h] = "uc_name"
    /\ pc' = [pc EXCEPT ![h] = "uc_done"]
    /\ user_contexts' = [user_contexts EXCEPT ![loc[h].arg].user_name =
                           IF ExtractedName(loc[h].aux.user) # NoName
                           THEN ExtractedName(loc[h].aux.user) ELSE @]
    /\ UNCHANGED <<now, loc, rate_limit_tracker, active_sessions,
                   conversation_history, sessions_lock, history_lock, calls, admitted,
                   denied, touched, lastTouch, entryCount, appended, clears, cleared, seen,
                   gemini_ready, chat, recorded>>

\* the statements of update_context after its call
ContextBody(h) ==
    \/ UC_Check(h) \/ UC_Init(h) \/ UC_Read(h) \/ UC_Write(h) \/ UC_Mood(h)
    \/ UC_Append(h) \/ UC_Len(h) \/ UC_Trim(h) \/ UC_Name(h)

---------------------------------------------------------------------------
(* WikipediaService.is_wikipedia_query, app.py:457-464, and AIService,      *)
(* app.py:468-626. An envelope is the dict a responder returns, without its *)
(* emoji.                                                                   *)

BadMessage == <<"<not a str>">>     \* a message object without .lower()

\* lines 460-463
IsWikipediaQuery(message) ==
    LET wiki_patterns == {<<"w", "h", "a", "t", " ", "i", "s">>, <<"w", "h", "o", " ", "i", "s">>, <<"t", "e", "l", "l", " ", "m", "e", " ", "a", "b", "o", "u", "t">>, <<"e", "x", "p", "l", "a", "i", "n">>,
                          <<"d", "e", "s", "c", "r", "i", "b", "e">>, <<"d", "e", "f", "i", "n", "e">>, <<"w", "i", "k", "i", "p", "e", "d", "i", "a">>, <<"f", "a", "c", "t", "s", " ", "a", "b", "o", "u", "t">>,
                          <<"i", "n", "f", "o", "r", "m", "a", "t", "i", "o", "n", " ", "a", "b", "o", "u", "t">>}
    IN  \E p \in wiki_patterns : OccursAsWord(Lower(message), p)

\* line 484
HasCodeKeyword(message) ==
    ContainsAny(Lower(message),
                {<<"w", "r", "i", "t", "e", " ", "c", "o", "d", "e">>, <<"g", "e", "n", "e", "r", "a", "t", "e", " ", "c", "o", "d", "e">>, <<"p", "y", "t", "h", "o", "n", " ", "c", "o", "d", "e">>, <<"j", "a", "v", "a", "s", "c", "r", "i", "p", "t", " ", "c", "o", "d", "e">>})

\* lines 475-487: the branch get_response takes
\* faulty variant: the code keywords are tested before the Wikipedia patterns
RouteCodeFirst(message) ==
    IF HasCodeKeyword(message) THEN "code"
    ELSE IF IsWikipediaQuery(message) THEN "wikipedia"
    ELSE "chat"
Route(message) ==
    IF IsWikipediaQuery(message) THEN "wikipedia"
    ELSE IF HasCodeKeyword(message) THEN "code"
    ELSE "chat"

\* lines 490-496
ErrorEnvelope ==
    [text |-> <<"I'm having trouble processing your request. Could you try rephrasing that?">>,
     source |-> "error"]
\* line 490: what an exception inside get_response becomes
\* faulty variant: the exception leaves get_response
FaultEscapes == [text |-> <<>>, source |-> "exception"]
OnRouterFault == ErrorEnvelope

\* line 476: what wikipedia_service.search_wikipedia returns: a formatted
\* article (or an apology, lines 355, 440, 455: a text that ends like it),
\* or the list of suggestions, which ends in "\n\n" (lines 442-453)
WikiAnswers == {<<"**Article**", "\n", "\n", "Source: Wikipedia">>,
                <<"I found these Wikipedia articles", "\n", "\n">>}

\* lines 510, 546: how model.generate_content(...) ends
GeminiOutcomes == {"text", "empty", "raises"}
\* response.text
GeminiText(outcome) == IF outcome = "text" THEN <<"Sure.", "\n">> ELSE <<>>

\* lines 535-539
CodeSetupEnvelope == [text |-> <<"Code generation requires AI setup.">>, source |-> "error"]
\* lines 545-562
CodeEnvelope(outcome) ==
    [text |-> <<"**Code Generated**", "\n", "\n">>
                \o (IF outcome = "raises" THEN <<"I couldn't generate code at this time.">>
                    ELSE GeminiText(outcome)),
     source |-> "gemini-code"]

\* lines 512-517: the envelope only if response.text is not empty
\* faulty variant: an empty answer is passed on
AcceptedAlways(outcome) == outcome # "raises"
Accepted(outcome) == outcome # "raises" /\ GeminiText(outcome) # <<>>
GeminiEnvelope(outcome) == [text |-> GeminiText(outcome), source |-> "gemini"]

\* lines 575-577
StoredName(session_id) ==
    IF session_id \in SessionIds /\ user_contexts[session_id] # NoContext
    THEN user_contexts[session_id].user_name ELSE NoName
NameGreeting(user_name) == IF user_name # NoName THEN <<" ">> \o user_name ELSE <<>>

\* lines 580-626
FallbackKind(message) ==
    IF ContainsAny(Lower(message), {<<"h", "e", "l", "l", "o">>, <<"h", "i">>, <<"h", "e", "y">>, <<"g", "o", "o", "d", " ", "m", "o", "r", "n", "i", "n", "g">>,
                                    <<"g", "o", "o", "d", " ", "e", "v", "e", "n", "i", "n", "g">>}) THEN "greeting"
    ELSE IF ContainsAny(Lower(message), {<<"h", "o", "w", " ", "a", "r", "e", " ", "y", "o", "u">>, <<"h", "o", "w", " ", "r", " ", "u">>}) THEN "how_are_you"
    ELSE IF ContainsAny(Lower(message), {<<"h", "e", "l", "p">>, <<"w", "h", "a", "t", " ", "c", "a", "n", " ", "y", "o", "u", " ", "d", "o">>}) THEN "help"
    ELSE IF ContainsAny(Lower(message), {<<"t", "h", "a", "n", "k">>, <<"t", "h", "a", "n", "k", "s">>}) THEN "thanks"
    ELSE IF Contains(message, <<"?">>) THEN "question"
    ELSE "default"
FallbackText(message, user_name) ==
    CASE FallbackKind(message) = "greeting" ->
           <<"Hello">> \o NameGreeting(user_name)
              \o <<"! I'm your AI assistant. How can I help you today?">>
      [] FallbackKind(message) = "how_are_you" ->
           <<"I'm doing great">> \o NameGreeting(user_name)
              \o <<"! Ready to help. What would you like to know?">>
      [] FallbackKind(message) = "help" ->
           <<"I can help you with:", "\n", "\n", "What would you like to explore?">>
      [] FallbackKind(message) = "thanks" ->
           <<"You're welcome">> \o NameGreeting(user_name)
              \o <<"! Happy to help anytime!">>
      [] FallbackKind(message) = "question" ->
           <<"That's an interesting question! Try asking about specific topics.">>
      [] OTHER ->
           <<"I understand">> \o NameGreeting(user_name)
              \o <<"! Feel free to ask me anything.">>
FallbackEnvelope(message, user_name) ==
    [text |-> FallbackText(message, user_name), source |-> "fallback"]

\* call
AI_Call(h, message, session_id) ==
    /\ Ready(h)
    /\ calls < MaxOps
    /\ pc' = [pc EXCEPT ![h] = "ai_classify"]
    /\ calls' = calls + 1
    /\ loc' = [loc EXCEPT ![h] = [NoLocals EXCEPT !.arg = session_id, !.aux = message,
                                     !.t = "none", !.tmp = "none"]]
    /\ UNCHANGED <<now, rate_limit_tracker, active_sessions, user_contexts,
                   conversation_history, sessions_lock, history_lock, admitted, denied,
                   touched, lastTouch, entryCount, appended, clears, cleared, seen,
                   gemini_ready, chat, recorded>>

\* lines 475, 484: the branch is chosen; message.lower() on an object that is
\* no str raises AttributeError, which line 490 catches
AI_Classify(h) ==
    /\ pc[h] = "ai_classify"
    /\ IF loc[h].aux = BadMessage
       THEN /\ pc' = [pc EXCEPT ![h] = "ai_done"]
            /\ loc' = [loc EXCEPT ![h].res = OnRouterFault, ![h].t = "fault"]
       ELSE /\ pc' = [pc EXCEPT ![h] =
                        CASE Route(loc[h].aux) = "wikipedia" -> "ai_wiki"
                          [] Route(loc[h].aux) = "code" -> "ai_code"
                          [] OTHER -> "ai_chat"]
            /\ loc' = [loc EXCEPT ![h].t = Route(loc[h].aux)]
    /\ UNCHANGED <<now, rate_limit_tracker, active_sessions, user_contexts,
                   conversation_history, sessions_lock, history_lock, calls, admitted,
                   denied, touched, lastTouch, entryCount, appended, clears, cleared, seen,
                   gemini_ready, chat, recorded>>

\* lines 476-481: search_wikipedia returns (it catches what the lookup raises)
AI_Wiki(h) ==
    /\ pc[h] = "ai_wiki"
    /\ pc' = [pc EXCEPT ![h] = "ai_done"]
    /\ \E answer \in WikiAnswers :
          loc' = [loc EXCEPT ![h].res = [text |-> answer, source |-> "wikipedia"]]
    /\ UNCHANGED <<now, rate_limit_tracker, active_sessions, user_contexts,
                   conversation_history, sessions_lock, history_lock, calls, admitted,
                   denied, touched, lastTouch, entryCount, appended, clears, cleared, seen,
                   gemini_ready, chat, recorded>>

\* lines 534-546: _get_gemini_code_response up to model.generate_content
AI_Code(h) ==
    /\ pc[h] = "ai_code"
    /\ IF gemini_ready
       THEN /\ pc' = [pc EXCEPT ![h] = "ai_code_call"]
            /\ UNCHANGED loc
       ELSE /\ pc' = [pc EXCEPT ![h] = "ai_done"]
            /\ loc' = [loc EXCEPT ![h].res = CodeSetupEnvelope, ![h].tmp = "unavailable"]
    /\ UNCHANGED <<now, rate_limit_tracker, active_sessions, user_contexts,
                   conversation_history, sessions_lock, history_lock, calls, admitted,
                   denied, touched, lastTouch, entryCount, appended, clears, cleared, seen,
                   gemini_ready, chat, recorded>>

\* lines 546-562: generate_content ends; the envelope is built
AI_CodeReturn(h) ==
    /\ pc[h] = "ai_code_call"
    /\ pc' = [pc EXCEPT ![h] = "ai_done"]
    /\ \E outcome \in GeminiOutcomes :
          loc' = [loc EXCEPT ![h].res = CodeEnvelope(outcome), ![h].tmp = outcome]
    /\ UNCHANGED <<now, rate_limit_tracker, active_sessions, user_contexts,
                   conversation_history, sessions_lock, history_lock, calls, admitted,
                   denied, touched, lastTouch, entryCount, appended, clears, cleared, seen,
                   gemini_ready, chat, recorded>>

\* lines 503-510: _get_gemini_response up to model.generate_content; the
\* prompt of get_enhanced_prompt (307-335) only leaves the process
AI_Chat(h) ==
    /\ pc[h] = "ai_chat"
    /\ IF gemini_ready
       THEN /\ pc' = [pc EXCEPT ![h] = "ai_gen_call"]
            /\ UNCHANGED loc
       ELSE /\ pc' = [pc EXCEPT ![h] = "ai_fallback"]
            /\ loc' = [loc EXCEPT ![h].tmp = "unavailable"]
    /\ UNCHANGED <<now, rate_limit_tracker, active_sessions, user_contexts,
                   conversation_history, sessions_lock, history_lock, calls, admitted,
                   denied, touched, lastTouch, entryCount, appended, clears, cleared, seen,
                   gemini_ready, chat, recorded>>

\* lines 510-524: generate_content ends
AI_GenReturn(h) ==
    /\ pc[h] = "ai_gen_call"
    /\ \E outcome \in GeminiOutcomes :
          IF Accepted(outcome)
          THEN /\ pc' = [pc EXCEPT ![h] = "ai_done"]
               /\ loc' = [loc EXCEPT ![h].res = GeminiEnvelope(outcome), ![h].tmp = outcome]
          ELSE /\ pc' = [pc EXCEPT ![h] = "ai_fallback"]
               /\ loc' = [loc EXCEPT ![h].tmp = outcome]
    /\ UNCHANGED <<now, rate_limit_tracker, active_sessions, user_contexts,
                   conversation_history, sessions_lock, history_lock, calls, admitted,
                   denied, touched, lastTouch, entryCount, appended, clears, cleared, seen,
                   gemini_ready, chat, recorded>>

\* lines 572-626: _get_fallback_response; user_contexts.get on an unhashable
\* id raises TypeError, which reaches line 490
AI_Fallback(h) ==
    /\ pc[h] = "ai_fallback"
    /\ pc' = [pc EXCEPT ![h] = "ai_done"]
    /\ loc' = [loc EXCEPT ![h].res =
                 IF loc[h].arg = BadId THEN OnRouterFault
                 ELSE FallbackEnvelope(loc[h].aux, StoredName(loc[h].arg)),
                          ![h].t = IF loc[h].arg = BadId THEN "fault" ELSE @]
    /\ UNCHANGED <<now, rate_limit_tracker, active_sessions, user_contexts,
                   conversation_history, sessions_lock, history_lock, calls, admitted,
                   denied, touched, lastTouch, entryCount, appended, clears, cleared, seen,
                   gemini_ready, chat, recorded>>

\* the statements of get_response after its call
RouterBody(h) ==
    \/ AI_Classify(h) \/ AI_Wiki(h) \/ AI_Code(h) \/ AI_CodeReturn(h)
    \/ AI_Chat(h) \/ AI_GenReturn(h) \/ AI_Fallback(h)

---------------------------------------------------------------------------
(* WikipediaService._format_comprehensive_response, app.py:382-421. A page  *)
(* is its title and the pieces content.split('\n\n') gives.                 *)

\* lines 387-391: the paragraphs kept
Paragraphs(content) ==
    SelectSeq([i \in DOMAIN content |-> Strip(content[i])],
              LAMBDA q : q # <<>> /\ Len(q) > MIN_PARAGRAPH_LENGTH
                         /\ ~OccursAt(q, <<"=", "=">>, 1))
\* line 396: the title heading (its emoji is one character)
Heading(title) == <<"<books>", " ", "*", "*">> \o title \o <<"*", "*", "\n", "\n">>
\* line 415: the source attribution
Footer == <<"<link>", " ", "*">> \o <<"S", "o", "u", "r", "c", "e", ":", " ", "W", "i", "k", "i", "p", "e", "d", "i", "a">> \o <<"*">>
\* str.rsplit('.', 1)[0]: the text before its last '.', the whole text if
\* it holds none
RSplitDot(text) ==
    IF \E k \in DOMAIN text : text[k] = "."
    THEN SubSeq(text, 1, (CHOOSE k \in DOMAIN text :
                            text[k] = "." /\ \A m \in (k + 1)..Len(text) : text[m] # ".") - 1)
    ELSE text
\* lines 404-405: para[:remaining].rsplit('.', 1)[0] + '.'
Truncated(para, remaining) ==
    RSplitDot(SubSeq(para, 1, Min(remaining, Len(para)))) \o <<".">>
RECURSIVE AddParagraphs(_, _, _)
\* lines 401-413: the loop over the paragraphs
AddParagraphs(response_parts, current_length, paragraphs) ==
    IF paragraphs = <<>> THEN response_parts
    ELSE LET para == Head(paragraphs) IN
         IF current_length + Len(para) > HARD_CAP
         THEN IF current_length < MINIMAL_CONTENT
              THEN response_parts
                      \o Truncated(para, HARD_CAP - current_length - CUT_MARGIN)
                      \o <<"\n", "\n">>
              ELSE response_parts
         ELSE IF current_length + Len(para) + 2 >= TARGET_LENGTH
              THEN response_parts \o para \o <<"\n", "\n">>
              ELSE AddParagraphs(response_parts \o para \o <<"\n", "\n">>,
                                 current_length + Len(para) + 2, Tail(paragraphs))
\* lines 384-417; <<"None">> is the value None of lines 393-394
FormatComprehensiveResponse(page) ==
    IF Paragraphs(page.content) = <<>> THEN <<"None">>
    ELSE AddParagraphs(Heading(page.title), Len(Heading(page.title)),
                       Paragraphs(page.content)) \o Footer

\* call
FR_Call(h, page) ==
    /\ Ready(h)
    /\ calls < MaxOps
    /\ pc' = [pc EXCEPT ![h] = "fr_format"]
    /\ calls' = calls + 1
    /\ loc' = [loc EXCEPT ![h] = [NoLocals EXCEPT !.aux = page]]
    /\ UNCHANGED <<now, rate_limit_tracker, active_sessions, user_contexts,
                   conversation_history, sessions_lock, history_lock, admitted, denied,
                   touched, lastTouch, entryCount, appended, clears, cleared, seen,
                   gemini_ready, chat, recorded>>

\* lines 384-417: the text is built and returned
FR_Return(h) ==
    /\ pc[h] = "fr_format"
    /\ pc' = [pc EXCEPT ![h] = "fr_done"]
    /\ loc' = [loc EXCEPT ![h].res = FormatComprehensiveResponse(loc[h].aux)]
    /\ UNCHANGED <<now, rate_limit_tracker, active_sessions, user_contexts,
                   conversation_history, sessions_lock, history_lock, calls, admitted,
                   denied, touched, lastTouch, entryCount, appended, clears, cleared, seen,
                   gemini_ready, chat, recorded>>

---------------------------------------------------------------------------
(* The /api/chat request handler, app.py:705-777. chat[h] is the frame of  *)
(* the request handler h serves: its locals, and a record of what it did.  *)

NoData == <<"<no json>">>          \* request.get_json() returns None

\* lines 726-734 (user_message is the stripped text)
\* faulty variant: nothing is rejected
AnyMessage(user_message) == TRUE
ValidMessage(user_message) ==
    user_message # <<>> /\ Len(user_message) <= MAX_MESSAGE_LENGTH

\* lines 737-740: the branch taken after is_valid_session
\* faulty variant: the id of the request is kept whatever the check said
ResolveKept(valid) == "touch"
Resolve(valid) == IF valid THEN "touch" ELSE "create"

NewRequest(ip, raw, sid, served) ==
    [phase |-> "rate", ip |-> ip, raw |-> raw, message |-> <<>>, sid |-> sid,
     session_id |-> EmptyId, valid |-> FALSE, limited |-> FALSE, status |-> 0,
     response |-> [text |-> <<>>, source |-> "none"], steps |-> <<>>,
     entry_id |-> 0, touched |-> FALSE, served |-> served]

\* lines 711-717: client_ip; RateLimiter.is_rate_limited(client_ip) is called
Chat_Start(h, ip, raw, sid) ==
    /\ chat[h].phase \in {"none", "replied"}
    /\ calls < MaxRequests
    /\ pc' = [pc EXCEPT ![h] = "rl_check"]
    /\ calls' = calls + 1
    /\ chat' = [chat EXCEPT ![h] = NewRequest(ip, raw, sid, chat[h].served)]
    /\ loc' = [loc EXCEPT ![h] = [NoLocals EXCEPT !.arg = ip, !.t = now,
                                                  !.aux = now - RATE_WINDOW]]
    /\ UNCHANGED <<now, rate_limit_tracker, active_sessions, user_contexts,
                   conversation_history, sessions_lock, history_lock, admitted, denied,
                   touched, lastTouch, entryCount, appended, clears, cleared, seen,
                   gemini_ready, recorded>>

\* the reply of a request that is not processed
Refused(h, status, limited) ==
    /\ pc' = [pc EXCEPT ![h] = "idle"]
    /\ chat' = [chat EXCEPT ![h].phase = "replied", ![h].status = status,
                            ![h].limited = limited]
    /\ UNCHANGED loc

\* lines 717-740: 429 if limited; 400 without data, with an empty or an
\* over-long message; 500 if the message is no str (line 776); otherwise
\* create_session or is_valid_session is called
Chat_Admit(h) ==
    /\ chat[h].phase = "rate"
    /\ pc[h] = "rl_done"
    /\ IF loc[h].res THEN Refused(h, 429, TRUE)
       ELSE IF chat[h].raw = NoData THEN Refused(h, 400, FALSE)
       ELSE IF chat[h].raw = BadMessage THEN Refused(h, 500, FALSE)
       ELSE IF ~ValidMessage(Strip(chat[h].raw)) THEN Refused(h, 400, FALSE)
       ELSE IF chat[h].sid = EmptyId
       THEN /\ SessionIds \ IdsInUse # {}
            /\ pc' = [pc EXCEPT ![h] = "cs_lock"]
            /\ chat' = [chat EXCEPT ![h].phase = "create",
                                    ![h].message = Strip(chat[h].raw),
                                    ![h].steps = <<"admit">>]
            /\ loc' = [loc EXCEPT ![h] = [NoLocals EXCEPT !.arg = chat[h].ip, !.t = now,
                                                          !.tmp = Uuid4]]
       ELSE /\ pc' = [pc EXCEPT ![h] = "iv_check"]
            /\ chat' = [chat EXCEPT ![h].phase = "valid",
                                    ![h].message = Strip(chat[h].raw),
                                    ![h].steps = <<"admit">>]
            /\ loc' = [loc EXCEPT ![h] = [NoLocals EXCEPT !.arg = chat[h].sid]]
    /\ UNCHANGED <<now, rate_limit_tracker, active_sessions, user_contexts,
                   conversation_history, sessions_lock, history_lock, calls, admitted,
                   denied, touched, lastTouch, entryCount, appended, clears, cleared, seen,
                   gemini_ready, recorded>>

\* lines 737-740: is_valid_session returned; create_session or
\* update_session is called
Chat_Resolve(h) ==
    /\ chat[h].phase = "valid"
    /\ pc[h] = "iv_done"
    /\ IF Resolve(loc[h].res) = "touch"
       THEN /\ pc' = [pc EXCEPT ![h] = "us_lock"]
            /\ chat' = [chat EXCEPT ![h].phase = "touch", ![h].valid = loc[h].res]
            /\ loc' = [loc EXCEPT ![h] = [NoLocals EXCEPT !.arg = chat[h].sid]]
       ELSE /\ SessionIds \ IdsInUse # {}
            /\ pc' = [pc EXCEPT ![h] = "cs_lock"]
            /\ chat' = [chat EXCEPT ![h].phase = "create", ![h].valid = loc[h].res]
            /\ loc' = [loc EXCEPT ![h] = [NoLocals EXCEPT !.arg = chat[h].ip, !.t = now,
                                                          !.tmp = Uuid4]]
    /\ UNCHANGED <<now, rate_limit_tracker, active_sessions, user_contexts,
                   conversation_history, sessions_lock, history_lock, calls, admitted,
                   denied, touched, lastTouch, entryCount, appended, clears, cleared, seen,
                   gemini_ready, recorded>>

\* lines 738-743: session_id is settled; AIService.get_response is called
Chat_Route(h) ==
    /\ \/ chat[h].phase = "create" /\ pc[h] = "cs_done"
       \/ chat[h].phase = "touch" /\ pc[h] = "us_done"
    /\ pc' = [pc EXCEPT ![h] = "ai_classify"]
    /\ LET session_id == IF chat[h].phase = "create" THEN loc[h].res ELSE chat[h].sid
       IN  /\ chat' = [chat EXCEPT ![h].phase = "route", ![h].session_id = session_id,
                                   ![h].touched = (chat[h].phase = "touch" /\ loc[h].res),
                                   ![h].steps = Append(@, "session")]
           /\ loc' = [loc EXCEPT ![h] = [NoLocals EXCEPT !.arg = session_id,
                                            !.aux = chat[h].message,
                                            !.t = "none", !.tmp = "none"]]
    /\ UNCHANGED <<now, rate_limit_tracker, active_sessions, user_contexts,
                   conversation_history, sessions_lock, history_lock, calls, admitted,
                   denied, touched, lastTouch, entryCount, appended, clears, cleared, seen,
                   gemini_ready, recorded>>

\* lines 743-749: the envelope is read; update_context is called
Chat_Context(h) ==
    /\ chat[h].phase = "route"
    /\ pc[h] = "ai_done"
    /\ pc' = [pc EXCEPT ![h] = "uc_check"]
    /\ chat' = [chat EXCEPT ![h].phase = "context", ![h].response = loc[h].res,
                            ![h].steps = Append(@, "route")]
    /\ loc' = [loc EXCEPT ![h] = [NoLocals EXCEPT !.arg = chat[h].session_id,
                                     !.aux = [user |-> chat[h].message,
                                              bot |-> loc[h].res.text]]]
    /\ UNCHANGED <<now, rate_limit_tracker, active_sessions, user_contexts,
                   conversation_history, sessions_lock, history_lock, calls, admitted,
                   denied, touched, lastTouch, entryCount, appended, clears, cleared, seen,
                   gemini_ready, recorded>>

\* lines 751-757: HistoryManager.add_conversation is called
Chat_History(h) ==
    /\ chat[h].phase = "context"
    /\ pc[h] = "uc_done"
    /\ entryCount < MaxAppends
    /\ pc' = [pc EXCEPT ![h] = "ac_lock"]
    /\ entryCount' = entryCount + 1
    /\ chat' = [chat EXCEPT ![h].phase = "history", ![h].entry_id = entryCount + 1,
                            ![h].steps = Append(@, "context")]
    /\ loc' = [loc EXCEPT ![h] = [NoLocals EXCEPT
                 !.arg = NewEntry(entryCount + 1, chat[h].message, chat[h].response.text,
                                  chat[h].session_id)]]
    /\ seen' = [seen EXCEPT ![h] = {}]
    /\ UNCHANGED <<now, rate_limit_tracker, active_sessions, user_contexts,
                   conversation_history, sessions_lock, history_lock, calls, admitted,
                   denied, touched, lastTouch, appended, clears, cleared,
                   gemini_ready, recorded>>

\* lines 760-772: the response is built and returned
Chat_Reply(h) ==
    /\ chat[h].phase = "history"
    /\ pc[h] = "ac_done"
    /\ pc' = [pc EXCEPT ![h] = "idle"]
    /\ chat' = [chat EXCEPT ![h].phase = "replied", ![h].status = 200,
                            ![h].steps = Append(@, "history"),
                            ![h].served = @ + 1]
    /\ UNCHANGED <<now, loc, rate_limit_tracker, active_sessions, user_contexts,
                   conversation_history, sessions_lock, history_lock, calls, admitted,
                   denied, touched, lastTouch, entryCount, appended, clears, cleared, seen,
                   gemini_ready, recorded>>

\* the statements of the operations chat calls
RateBody(h) ==
    \/ RL_Check(h) \/ RL_Init(h) \/ RL_Prune(h) \/ RL_Assign(h) \/ RL_Len(h) \/ RL_Append(h)
SessionBody(h) ==
    \/ CS_Lock(h) \/ CS_Sess(h) \/ CS_Ctx(h)
    \/ US_Lock(h) \/ US_Check(h) \/ US_Last(h) \/ US_Read(h) \/ US_Write(h)
    \/ IV_Check(h) \/ IV_Read(h)
\* in chat the session has its context before update_context starts, so
\* line 258 is never reached there
ContextBodyInChat(h) ==
    \/ UC_Check(h) \/ UC_Read(h) \/ UC_Write(h) \/ UC_Mood(h)
    \/ UC_Append(h) \/ UC_Len(h) \/ UC_Trim(h) \/ UC_Name(h)
AppendBody(h) == AC_Lock(h) \/ AC_Append(h) \/ AC_Evict(h)

\* the statements of chat between the calls it makes
ChatGlue(h) ==
    \/ Chat_Admit(h) \/ Chat_Resolve(h) \/ Chat_Route(h) \/ Chat_Context(h)
    \/ Chat_History(h) \/ Chat_Reply(h)

ChatStep(h, ips, messages, sids) ==
    \/ \E ip \in ips, raw \in messages, sid \in sids : Chat_Start(h, ip, raw, sid)
    \/ ChatGlue(h)
    \/ RateBody(h) \/ SessionBody(h) \/ RouterBody(h) \/ ContextBodyInChat(h)
    \/ AppendBody(h)

---------------------------------------------------------------------------
\* the wall clock advances
Tick ==
    /\ now < MaxTime
    /\ now' = now + 1
    /\ UNCHANGED <<pc, loc, rate_limit_tracker, active_sessions, user_contexts,
                   conversation_history, sessions_lock, history_lock, calls, admitted, denied,
                   touched, lastTouch, entryCount, appended, clears, cleared, seen,
                   gemini_ready, chat, recorded>>

InitWith(ready) ==
    /\ now = 0
    /\ pc = [h \in Handlers |-> "idle"]
    /\ loc = [h \in Handlers |-> NoLocals]
    /\ rate_limit_tracker = [k \in Clients |-> NoWindow]
    /\ active_sessions = [s \in SessionIds |-> NoSession]
    /\ user_contexts = [s \in SessionIds |-> NoContext]
    /\ conversation_history = <<>>
    /\ sessions_lock = 0
    /\ history_lock = 0
    /\ calls = 0
    /\ admitted = [k \in Clients |-> <<>>]
    /\ denied = [k \in Clients |-> 0]
    /\ touched = [s \in SessionIds |-> 0]
    /\ lastTouch = [s \in SessionIds |-> 0]
    /\ entryCount = 0
    /\ appended = <<>>
    /\ clears = 0
    /\ cleared = FALSE
    /\ seen = [h \in Handlers |-> {}]
    /\ gemini_ready = ready
    /\ chat = [h \in Handlers |-> NoRequest]
    /\ recorded = [s \in SessionIds |-> <<>>]

\* the components below never reach the generative source
Init == InitWith(FALSE)

\* admit-checks made one after another by a single caller
NextRateSeq == RateStep(1) \/ Tick
SpecRateSeq == Init /\ [][NextRateSeq]_vars

\* admit-checks made by concurrent request handlers
NextRate == (\E h \in Handlers : RateStep(h)) \/ Tick
SpecRate == Init /\ [][NextRate]_vars

\* create / touch / isValid called by concurrent request handlers
NextSess == (\E h \in Handlers : SessionStep(h)) \/ Tick
SpecSess == Init /\ [][NextSess]_vars

\* append / recent / clear called by concurrent request handlers
NextHist == \E h \in Handlers : HistoryStep(h)
SpecHist == Init /\ [][NextHist]_vars

\* context updates made one after another by a single caller
CtxMessages == {<<"h", "e", "l", "l", "o">>, <<"i", "'", "m", " ", "A", "l">>}
BotReplies == {<<"o", "k">>}
NextCtxSeq ==
    \/ \E sid \in {1, BadId}, m \in CtxMessages, r \in BotReplies : UC_Call(1, sid, m, r)
    \/ ContextBody(1)
    \/ Tick
SpecCtxSeq == Init /\ [][NextCtxSeq]_vars

\* update_context called by concurrent request handlers, as chat calls it:
\* on the id of a session create_session has stored with its context
NextCtx ==
    \E h \in Handlers :
        \/ \E ip \in GoodKeys : CS_Call(h, ip)
        \/ CS_Lock(h) \/ CS_Sess(h) \/ CS_Ctx(h)
        \/ \E sid \in SessionIds, m \in CtxMessages, r \in BotReplies :
              /\ user_contexts[sid] # NoContext
              /\ UC_Call(h, sid, m, r)
        \/ ContextBodyInChat(h)
SpecCtx == Init /\ [][NextCtx]_vars

\* the router and the context tracker called one after another by a single
\* caller, with the generative source configured or not
InitAny == \E ready \in BOOLEAN : InitWith(ready)
RouteMessages == {<<"h", "e", "l", "l", "o">>, <<"H", "i", " ", "t", "h", "e", "r", "e">>, <<"t", "h", "a", "n", "k", "s">>, <<"h", "e", "l", "p">>, <<"w", "h", "y", "?">>, <<"o", "k">>,
                  <<"w", "h", "a", "t", " ", "i", "s", " ", "t", "l", "a">>, <<"e", "x", "p", "l", "a", "i", "n", " ", "p", "y", "t", "h", "o", "n", " ", "c", "o", "d", "e">>, <<"w", "r", "i", "t", "e", " ", "c", "o", "d", "e">>,
                  BadMessage}
NameMessages == {<<"m", "y", " ", "n", "a", "m", "e", " ", "i", "s", " ", "A", "d", "a">>, <<"i", "'", "m", " ", "A", "l", ",", " ", "m", "y", " ", "n", "a", "m", "e", " ", "i", "s", " ", "A", "d", "a">>, <<"c", "a", "l", "l", " ", "m", "e", " ", "B", "o", "b">>}
NextRoute ==
    \/ \E m \in RouteMessages, sid \in {1, EmptyId, BadId} : AI_Call(1, m, sid)
    \/ RouterBody(1)
    \/ \E m \in NameMessages, r \in BotReplies : UC_Call(1, 1, m, r)
    \/ ContextBody(1)
SpecRoute == InitAny /\ [][NextRoute]_vars

\* /api/chat requests served one after another by a single handler, all at
\* one time of the clock
ChatMessages == {<<"h", "e", "l", "l", "o">>, <<"e", "x", "p", "l", "a", "i", "n", " ", "p", "y", "t", "h", "o", "n", " ", "c", "o", "d", "e">>, <<"w", "r", "i", "t", "e", " ", "c", "o", "d", "e">>, <<" ", " ">>,
                 <<"t", "h", "i", "s", " ", "m", "e", "s", "s", "a", "g", "e", " ", "i", "s", " ", "t", "o", "o", " ", "l", "o", "n", "g">>, NoData, BadMessage}
NextChatSeq == ChatStep(1, Clients, ChatMessages, {1})
SpecChatSeq == InitAny /\ [][NextChatSeq]_vars

\* /api/chat requests served one after another by a single handler while
\* the clock advances; Gemini is not configured and no message holds a
\* Wikipedia pattern or a code keyword
NextChatClock ==
    \/ \E ip \in GoodKeys, raw \in {<<"h", "e", "l", "l", "o">>}, sid \in SessionArgs :
          Chat_Start(1, ip, raw, sid)
    \/ ChatGlue(1)
    \/ RateBody(1) \/ SessionBody(1) \/ ContextBodyInChat(1) \/ AppendBody(1)
    \/ AI_Classify(1) \/ AI_Chat(1) \/ AI_Fallback(1)
    \/ Tick
SpecChatClock == Init /\ [][NextChatClock]_vars

\* pages formatted one after another: a title and up to MaxParagraphs pieces
\* of content, among them a section header and a fragment
PageTexts == {<<"a", "a", "a", "a", ".">>, <<"a", "a", ".", " ", "a", "a", "a", ".">>, <<"a", "a", "a", "a", " ", "a", "a", "a", "a", ".">>, <<"a", "a", ".", " ", "a", "a", "a", "a", " ", "a", "a", "a", ".">>,
              <<"=", "=", " ", "H", " ", "=", "=">>, <<" ", "a", ".", " ">>}
Pages ==
    {[title |-> <<"T">>, content |-> c] :
        c \in UNION {[1..n -> PageTexts] : n \in 1..MaxParagraphs}}
NextFormat == (\E page \in Pages : FR_Call(1, page)) \/ FR_Return(1)
SpecFormat == Init /\ [][NextFormat]_vars

\* /api/chat, /api/history and /api/history/clear served by concurrent
\* request handlers, one request per handler thread
Returned(h) == chat[h].phase \in {"none", "replied"} /\ Ready(h)
Continue(h) ==
    \/ ChatGlue(h) \/ RateBody(h) \/ SessionBody(h)
    \/ AI_Classify(h) \/ AI_Chat(h) \/ AI_GenReturn(h) \/ AI_Fallback(h)
    \/ UC_Check(h) \/ UC_Read(h) \/ UC_Write(h) \/ UC_Mood(h) \/ UC_Append(h)
    \/ UC_Len(h) \/ UC_Name(h)
    \/ AppendBody(h)
    \/ GR_Lock(h) \/ GR_Slice(h) \/ GR_Rev(h)
    \/ CH_Lock(h) \/ CH_Clear(h)
NextLocks ==
    \E h \in Handlers :
        \/ /\ pc[h] = "idle" /\ chat[h].phase = "none"
           /\ \/ Chat_Start(h, "ip1", <<"o", "k">>, 1)
              \/ GR_Call(h, 1)
              \/ CH_Call(h)
        \/ Continue(h)
SpecLocks == InitAny /\ [][NextLocks]_vars
\* every handler that can take a step of the request it serves takes one
\* (each such step moves the handler to its next statement)
SpecLocksFair == SpecLocks /\ \A h \in Handlers : WF_pc(Continue(h))

---------------------------------------------------------------------------
(* Properties *)

CountAfter(seq, cutoff) == Cardinality({i \in DOMAIN seq : seq[i] > cutoff})
CountIn(seq, lo, hi) == Cardinality({i \in DOMAIN seq : seq[i] > lo /\ seq[i] <= hi})
CountOf(seq, x) == Cardinality({i \in DOMAIN seq : seq[i] = x})
LastN(seq, n) == SubSeq(seq, Max(Len(seq) - n, 0) + 1, Len(seq))
IsSuffix(part, seq) == Len(part) <= Len(seq) /\ part = LastN(seq, Len(part))

\* C1: admit-checks on one key made one after another: no trailing 60-second
\* window ever holds more than the threshold of allowed checks, a check is
\* denied only when the window ending at it already holds the threshold of
\* allowed checks, and is allowed whenever it holds fewer (so also once all
\* recorded timestamps are more than 60 seconds old).
C1_SequentialWindow ==
    \A k \in GoodKeys :
        /\ \A t \in 0..MaxTime :
              CountIn(admitted[k], t - RATE_WINDOW, t) <= RATE_LIMIT_PER_MINUTE
        /\ \A h \in Handlers :
              (pc[h] = "rl_done" /\ loc[h].arg = k) =>
                 LET n == CountAfter(admitted[k], loc[h].t - RATE_WINDOW)
                 IN  /\ loc[h].res => n >= RATE_LIMIT_PER_MINUTE
                     /\ ~loc[h].res => (n <= RATE_LIMIT_PER_MINUTE /\ n >= 1)

\* threshold checks were allowed, a further one was denied, and after the
\* window had passed a check was allowed again
C1_Witness ==
    \E k \in GoodKeys :
        /\ pc[1] = "rl_done" /\ loc[1].arg = k /\ ~loc[1].res
        /\ denied[k] >= 1
        /\ Len(admitted[k]) = RATE_LIMIT_PER_MINUTE + 1
        /\ loc[1].t >= admitted[k][RATE_LIMIT_PER_MINUTE] + RATE_WINDOW

\* C2: under concurrent handlers, no trailing 60-second window holds more
\* than the threshold of allowed checks, and every allowed timestamp that is
\* not yet 60 seconds old is still in the key's window.
C2_ConcurrentWindow ==
    \A k \in GoodKeys :
        /\ \A t \in 0..MaxTime :
              CountIn(admitted[k], t - RATE_WINDOW, t) <= RATE_LIMIT_PER_MINUTE
        /\ \A ts \in 0..MaxTime :
              (ts > now - RATE_WINDOW /\ CountOf(admitted[k], ts) > 0) =>
                 /\ rate_limit_tracker[k] # NoWindow
                 /\ CountOf(rate_limit_tracker[k], ts) >= CountOf(admitted[k], ts)

\* C3: an admit-check that hits an internal fault (a key the dictionary
\* cannot look up) returns False, i.e. the call is allowed.
C3_FailOpen ==
    \A h \in Handlers :
        (pc[h] = "rl_done" /\ loc[h].arg = BadKey) => loc[h].res = FALSE

C3_Witness ==
    \E h \in Handlers : pc[h] = "rl_done" /\ loc[h].arg = BadKey /\ loc[h].res = FALSE

\* C4: isValid on an empty, malformed or unknown id returns False; on an id
\* checked at its creation time it returns True; on an id whose last
\* activity (creation or touch) lies more than the timeout back it returns
\* False.
C4_ValidThenExpired ==
    \A h \in Handlers :
        pc[h] = "iv_done" =>
            LET s == loc[h].arg IN
            /\ s \in {EmptyId, BadId} => loc[h].res = FALSE
            /\ (s \in SessionIds /\ active_sessions[s] = NoSession) => loc[h].res = FALSE
            /\ (s \in SessionIds /\ loc[h].aux = "known"
                  /\ loc[h].t = FromIsoFormat(active_sessions[s].created))
                  => loc[h].res = TRUE
            /\ (s \in SessionIds /\ loc[h].aux = "known"
                  /\ loc[h].t - lastTouch[s] > SESSION_TIMEOUT_HOURS)
                  => loc[h].res = FALSE

\* one handler found a session valid at its creation time, the other found
\* the same, untouched session invalid after the timeout
C4_Witness ==
    \E s \in SessionIds :
        /\ active_sessions[s] # NoSession
        /\ touched[s] = 0
        /\ pc[1] = "iv_done" /\ loc[1].arg = s /\ loc[1].aux = "known"
        /\ loc[1].t = FromIsoFormat(active_sessions[s].created) /\ loc[1].res = TRUE
        /\ pc[2] = "iv_done" /\ loc[2].arg = s /\ loc[2].aux = "known"
        /\ loc[2].t - lastTouch[s] > SESSION_TIMEOUT_HOURS /\ loc[2].res = FALSE

\* C5: a session's message count equals the number of touches of it that
\* returned True; a touch that ends at the membership test returns False on
\* an unknown id and changes neither store; a touch sets last-activity to
\* now and its final step adds exactly 1 to the count and returns True.
C5_CountIsTouches ==
    \A s \in SessionIds :
        /\ active_sessions[s] # NoSession => active_sessions[s].message_count = touched[s]
        /\ active_sessions[s] = NoSession => touched[s] = 0

C5_TouchStep ==
    \A h \in Handlers :
        /\ (pc[h] = "us_check" /\ pc'[h] = "us_done") =>
              /\ loc'[h].res = FALSE
              /\ loc[h].arg = BadId \/ UnknownSession(loc[h].arg)
              /\ UNCHANGED <<active_sessions, user_contexts,
                   gemini_ready, chat, recorded>>
        /\ (pc[h] = "us_last" /\ pc'[h] = "us_read") =>
              FromIsoFormat(active_sessions'[loc[h].arg].last_activity) = now
        /\ (pc[h] = "us_write" /\ pc'[h] = "us_done") =>
              /\ loc'[h].res = TRUE
              /\ active_sessions'[loc[h].arg].message_count
                    = active_sessions[loc[h].arg].message_count + 1

C5_Touch == [] C5_CountIsTouches /\ [][C5_TouchStep]_vars

\* both handlers touched the same session, and both touches returned True
C5_Witness ==
    \E s \in SessionIds :
        /\ pc[1] = "us_done" /\ loc[1].arg = s /\ loc[1].res = TRUE
        /\ pc[2] = "us_done" /\ loc[2].arg = s /\ loc[2].res = TRUE
        /\ active_sessions[s].message_count = 2

\* C6: in every reachable state every id in the session store also has a
\* context (the pair is installed atomically).
C6_SessionHasContext ==
    \A s \in SessionIds : active_sessions[s] # NoSession => user_contexts[s] # NoContext

\* C7: when no append is between its insertion and its eviction step, the
\* log holds at most capacity entries, and they are the capacity most recent
\* insertions (since the last clear) in insertion order.
C7_BoundedFifo ==
    (\A h \in Handlers : pc[h] # "ac_evict") =>
        /\ Len(conversation_history) <= MAX_HISTORY_ENTRIES
        /\ conversation_history = LastN(appended, MAX_HISTORY_ENTRIES)

\* capacity + 1 entries were appended and the oldest was evicted
C7_Witness ==
    /\ \A h \in Handlers : pc[h] # "ac_evict"
    /\ Len(appended) = MAX_HISTORY_ENTRIES + 1
    /\ Len(conversation_history) = MAX_HISTORY_ENTRIES
    /\ conversation_history[1].id = appended[2].id

\* C8: a history read with limit >= 0 returns at most min(limit, 500)
\* entries, the most recently appended ones, newest first.
C8_ReadAtMostLimit ==
    \A h \in Handlers :
        (pc[h] = "gr_done" /\ loc[h].aux >= 0) =>
            /\ Len(loc[h].res) <= Min(loc[h].aux, HISTORY_READ_CAP)
            /\ \E log \in seen[h] : IsSuffix(Reversed(loc[h].res), log)

\* C9: with no clear and at most capacity appends, once every append has
\* returned the log holds each appended entry exactly once and nothing
\* else; and what a read returns is, newest first, a suffix of the log as it
\* stood at one moment of the read.
C9_NoLossNoDuplicate ==
    /\ (/\ clears = 0
        /\ entryCount <= MAX_HISTORY_ENTRIES
        /\ \A h \in Handlers : pc[h] \notin {"ac_lock", "ac_append", "ac_evict"})
       => /\ Len(conversation_history) = entryCount
          /\ \A id \in 1..entryCount :
                Cardinality({i \in DOMAIN conversation_history :
                                conversation_history[i].id = id}) = 1
    /\ \A h \in Handlers :
          pc[h] = "gr_done" =>
              \E log \in seen[h] : IsSuffix(Reversed(loc[h].res), log)

\* a read that overlapped an append returned two or more entries, and
\* capacity entries built by the handlers are all in the log
C9_Witness ==
    /\ clears = 0
    /\ entryCount = MAX_HISTORY_ENTRIES
    /\ Len(conversation_history) = MAX_HISTORY_ENTRIES
    /\ \E h \in Handlers :
          /\ pc[h] = "gr_done"
          /\ Len(loc[h].res) >= 2
          /\ Cardinality(seen[h]) >= 2
          /\ \E g \in Handlers \ {h} : pc[g] = "ac_done"

\* C10: clear() returns True; while the last change of the log is a clear
\* the log is empty, and a read whose slice is taken then returns the empty
\* sequence.
C10_ClearThenEmpty ==
    /\ cleared => conversation_history = <<>>
    /\ \A h \in Handlers :
          /\ pc[h] = "ch_done" => loc[h].res = TRUE
          /\ (pc[h] = "gr_done" /\ loc[h].t = TRUE) => loc[h].res = <<>>

\* entries were appended, a clear() returned, and a read with a limit beyond
\* the cap, started after it, returned nothing
C10_Witness ==
    /\ entryCount >= 2
    /\ \E h \in Handlers :
          /\ pc[h] = "gr_done" /\ loc[h].t = TRUE /\ loc[h].aux = MaxLimit
          /\ loc[h].res = <<>>
          /\ seen[h] = {<<>>}
          /\ \E g \in Handlers \ {h} : pc[g] = "ch_done" /\ loc[g].res = TRUE

\* the handlers that are inside update_context for session s
Updating(s) ==
    {h \in Handlers : pc[h] \in {"uc_init", "uc_read", "uc_write", "uc_mood", "uc_append",
                                  "uc_len", "uc_trim", "uc_name"} /\ loc[h].arg = s}

Routed == {"ai_wiki", "ai_code", "ai_code_call", "ai_chat", "ai_gen_call", "ai_fallback",
           "ai_done"}

\* C12: the router is a strict priority cascade: a message that matches a
\* knowledge pattern is answered by the knowledge source with source tag
\* 'wikipedia' even if it also holds a code keyword; the code-generation
\* path is taken only when no knowledge pattern matches; the general
\* conversation path only when neither matches.
C12_PriorityCascade ==
    \A h \in Handlers :
        (pc[h] \in Routed /\ loc[h].t # "fault") =>
            /\ IsWikipediaQuery(loc[h].aux) => loc[h].t = "wikipedia"
            /\ loc[h].t = "code" => ~IsWikipediaQuery(loc[h].aux) /\ HasCodeKeyword(loc[h].aux)
            /\ loc[h].t = "chat" => ~IsWikipediaQuery(loc[h].aux) /\ ~HasCodeKeyword(loc[h].aux)
            /\ pc[h] = "ai_wiki" => loc[h].t = "wikipedia"
            /\ pc[h] \in {"ai_code", "ai_code_call"} => loc[h].t = "code"
            /\ pc[h] \in {"ai_chat", "ai_gen_call", "ai_fallback"} => loc[h].t = "chat"
            /\ pc[h] = "ai_done" =>
                  /\ loc[h].t = "wikipedia" <=> loc[h].res.source = "wikipedia"
                  /\ loc[h].res.source = "gemini-code" => loc[h].t = "code"
                  /\ loc[h].res.source \in {"gemini", "fallback"} => loc[h].t = "chat"

\* a message with a knowledge pattern and a code keyword was answered by
\* the knowledge source
C12_Witness ==
    /\ pc[1] = "ai_done" /\ loc[1].t = "wikipedia"
    /\ IsWikipediaQuery(loc[1].aux) /\ HasCodeKeyword(loc[1].aux)
    /\ loc[1].res.source = "wikipedia"

\* C13: a code-generation request never falls through to the fallback
\* responder: whenever the generative source is unavailable or the
\* generative call raises, the returned envelope has source 'error'.
C13_CodeFailureIsError ==
    \A h \in Handlers :
        (pc[h] = "ai_done" /\ loc[h].t = "code") =>
            /\ loc[h].res.source # "fallback"
            /\ loc[h].tmp \in {"unavailable", "raises"} => loc[h].res.source = "error"

\* C14: for a general-conversation message, whenever the generative source
\* is unavailable, or its call raises, or it returns no text, the returned
\* envelope is the one the fallback responder gives for the message and the
\* session; the envelope has source 'gemini' only when the call returned a
\* text that is not empty.
C14_GeneralFallback ==
    \A h \in Handlers :
        (pc[h] = "ai_done" /\ loc[h].t = "chat" /\ loc[h].arg # BadId) =>
            /\ loc[h].res.source \in {"gemini", "fallback"}
            /\ loc[h].tmp \in {"unavailable", "raises", "empty"} =>
                  loc[h].res = FallbackEnvelope(loc[h].aux, StoredName(loc[h].arg))
            /\ loc[h].res.source = "gemini" =>
                  loc[h].tmp = "text" /\ loc[h].res.text # <<>>

\* the generative call returned an empty text and the fallback answered
C14_Witness ==
    /\ pc[1] = "ai_done" /\ loc[1].t = "chat" /\ loc[1].arg # BadId
    /\ gemini_ready /\ loc[1].tmp = "empty"
    /\ loc[1].res.source = "fallback"

\* C15: whatever the message and the session id, get_response returns an
\* envelope with a text and a source tag out of 'wikipedia', 'gemini',
\* 'gemini-code', 'fallback' and 'error', and a fault raised inside the
\* cascade (by the classifier or by the fallback responder) gives the
\* generic 'error' envelope.
C15_NoFaultEscapes ==
    \A h \in Handlers :
        pc[h] = "ai_done" =>
            /\ DOMAIN loc[h].res = {"text", "source"}
            /\ loc[h].res.source \in {"wikipedia", "gemini", "gemini-code", "fallback", "error"}
            /\ loc[h].t = "fault" => loc[h].res = ErrorEnvelope

\* the fallback responder raised on an unhashable session id and the caller
\* got the generic error envelope
C15_Witness ==
    /\ pc[1] = "ai_done" /\ loc[1].t = "fault"
    /\ loc[1].arg = BadId /\ loc[1].aux # BadMessage
    /\ loc[1].res = ErrorEnvelope

\* handler h waits for the knowledge source or the generative source
InExternalCall(h) == pc[h] \in {"ai_wiki", "ai_code_call", "ai_gen_call"}

\* C16: no lock is held across a call into the knowledge source or the
\* generative source: in every reachable state in which a handler is inside
\* such a call it holds neither the sessions lock nor the history lock.
C16_NoLockAcrossExternalCall ==
    \A h \in Handlers :
        InExternalCall(h) => sessions_lock # h /\ history_lock # h

\* a request that took the sessions lock waits for the generative source,
\* after an earlier request took the history lock
C16_Witness ==
    /\ pc[1] = "ai_gen_call"
    /\ chat[1].phase = "route" /\ chat[1].steps = <<"admit", "session">>
    /\ appended # <<>>
    /\ sessions_lock = 0 /\ history_lock = 0

\* the request of handler h is one the rate limiter or the validation rejects
Rejectable(h) ==
    \/ chat[h].limited
    \/ chat[h].raw = NoData
    \/ chat[h].raw # BadMessage /\ Strip(chat[h].raw) = <<>>
    \/ chat[h].raw # BadMessage /\ Len(Strip(chat[h].raw)) > MAX_MESSAGE_LENGTH

\* a rejected request was answered 429 or 400 without reaching the session
\* management or the router
C17_Rejected ==
    \A h \in Handlers :
        (chat[h].phase = "replied" /\ Rejectable(h)) =>
            /\ chat[h].status = IF chat[h].limited THEN 429 ELSE 400
            /\ chat[h].steps = <<>>
            /\ chat[h].session_id = EmptyId

\* up to the decision on a request the handler changes neither the session
\* store, nor the contexts, nor the history
C17_FrameStep ==
    \A h \in Handlers :
        (/\ chat[h].phase \in {"none", "replied", "rate"}
         /\ pc'[h] # pc[h] \/ chat'[h] # chat[h]) =>
            UNCHANGED <<active_sessions, user_contexts, conversation_history>>

\* C17: a request rejected by the rate limiter or by the validation (empty or
\* over-long message, no data) is rejected before routing and leaves the
\* session store, the contexts and the history unchanged; only the rate
\* window may change.
C17_RejectedLeavesState == [] C17_Rejected /\ [][C17_FrameStep]_vars

\* the third request of one address was answered 429 after two were served
C17_Witness ==
    /\ chat[1].phase = "replied" /\ chat[1].status = 429 /\ chat[1].limited
    /\ Len(appended) = RATE_LIMIT_PER_MINUTE
    /\ Len(conversation_history) = RATE_LIMIT_PER_MINUTE

\* an admitted request with a valid message was answered 200; without a
\* valid session id it ran under a session created for it, with a valid one
\* under the id it carried, which was touched
C18_Resolved ==
    \A h \in Handlers :
        (chat[h].phase = "replied" /\ ~Rejectable(h) /\ chat[h].raw # BadMessage) =>
            /\ chat[h].status = 200
            /\ chat[h].session_id \in SessionIds
            /\ active_sessions[chat[h].session_id] # NoSession
            /\ \E i \in DOMAIN appended :
                  /\ appended[i].id = chat[h].entry_id
                  /\ appended[i].session_id = chat[h].session_id
            /\ IF chat[h].sid = EmptyId \/ ~chat[h].valid
               THEN ~chat[h].touched
               ELSE chat[h].session_id = chat[h].sid /\ chat[h].touched

\* a session is stored under an id no session of the store has
C18_FreshStep ==
    \A h \in Handlers :
        (pc[h] = "cs_sess" /\ pc'[h] = "cs_ctx") =>
            /\ active_sessions[loc[h].tmp] = NoSession
            /\ active_sessions'[loc[h].tmp] # NoSession
            /\ \A s \in SessionIds \ {loc[h].tmp} : active_sessions'[s] = active_sessions[s]

\* C18: a message that carries no session id, an unknown one or an expired
\* one is not answered with an error for that: the handler creates a session
\* whose id differs from every id in the store, processes the message under
\* it and returns success with the new id; a message with a valid id is
\* processed under that id, which is touched and echoed.
C18_SessionForEveryMessage == [] C18_Resolved /\ [][C18_FreshStep]_vars

\* a message that carried the id of an expired session was served under a
\* new session
C18_Witness ==
    /\ chat[1].phase = "replied" /\ chat[1].status = 200
    /\ chat[1].sid \in SessionIds /\ ~chat[1].valid
    /\ active_sessions[chat[1].sid] # NoSession
    /\ chat[1].session_id # chat[1].sid
    /\ now - lastTouch[chat[1].sid] >= SESSION_TIMEOUT_HOURS

\* the text holds 'my name is Ada' and the name ends there
NamesAda(text) ==
    \E i \in 1..Len(text) :
        /\ OccursAt(text, <<"m", "y", " ", "n", "a", "m", "e", " ", "i", "s", " ", "A", "d", "a">>, i)
        /\ i + 14 > Len(text) \/ ~IsWordChar(text[i + 14])

\* C19: after a message containing 'my name is Ada' has been handled in a
\* session the context stores the name 'Ada', and every later fallback
\* greeting reply for that session contains 'Ada' until a later message
\* sets another name.
C19_NameKept ==
    \A h \in Handlers :
        /\ (pc[h] = "uc_done" /\ loc[h].arg \in SessionIds /\ NamesAda(loc[h].aux.user)) =>
              user_contexts[loc[h].arg].user_name = <<"A", "d", "a">>
        /\ (/\ pc[h] = "ai_done" /\ loc[h].arg \in SessionIds
            /\ loc[h].res.source = "fallback" /\ FallbackKind(loc[h].aux) = "greeting"
            /\ \E k \in DOMAIN recorded[loc[h].arg] :
                  /\ NamesAda(recorded[loc[h].arg][k].user)
                  /\ \A j \in (k + 1)..Len(recorded[loc[h].arg]) :
                        ExtractedName(recorded[loc[h].arg][j].user) = NoName) =>
              Contains(loc[h].res.text, <<"A", "d", "a">>)

RECURSIVE ExchangesOf(_)
\* the number of exchanges recorded for the sessions of the set
ExchangesOf(sessions) ==
    IF sessions = {} THEN 0
    ELSE LET s == CHOOSE x \in sessions : TRUE
         IN  Len(recorded[s]) + ExchangesOf(sessions \ {s})

\* the requests whose exchange has been recorded, and those whose history
\* entry has been appended
PastExchange(h) ==
    chat[h].served +
      (IF \/ chat[h].phase = "context" /\ pc[h] \in {"uc_len", "uc_trim", "uc_name", "uc_done"}
          \/ chat[h].phase = "history"
       THEN 1 ELSE 0)
PastEntry(h) ==
    chat[h].served +
      (IF chat[h].phase = "history" /\ pc[h] \in {"ac_evict", "ac_done"} THEN 1 ELSE 0)

\* the order of the steps, one exchange and one entry per served message,
\* the entry appended after the reply was routed and the context updated
C20_Order ==
    /\ ExchangesOf(SessionIds) = PastExchange(1) + PastExchange(2)
    /\ Len(appended) = PastEntry(1) + PastEntry(2)
    /\ \A h \in Handlers :
          /\ (chat[h].phase = "history") =>
                /\ chat[h].steps = <<"admit", "session", "route", "context">>
                /\ chat[h].response.source # "none"
                /\ recorded[chat[h].session_id] # <<>>
                /\ LET e == recorded[chat[h].session_id][Len(recorded[chat[h].session_id])]
                   IN  e.user = chat[h].message /\ e.bot = chat[h].response.text
          /\ (chat[h].phase = "replied" /\ chat[h].status = 200) =>
                /\ chat[h].steps = <<"admit", "session", "route", "context", "history">>
                /\ Cardinality({i \in DOMAIN appended : appended[i].id = chat[h].entry_id}) = 1

\* the history entry of the request handler h has answered
EntryOf(h) == appended[CHOOSE i \in DOMAIN appended : appended[i].id = chat[h].entry_id]

\* C20: for each accepted message the handler admits, resolves the session,
\* routes, updates the context, appends to the history and replies, in that
\* order; the history entry is appended only after the router has produced
\* the reply and the context was updated; one history entry and one context
\* exchange are produced per message; the history entry carries the session
\* id, the user text and the reply text of the response returned.
C20_OrderAndSameTexts ==
    /\ C20_Order
    /\ \A h \in Handlers :
          (chat[h].phase = "replied" /\ chat[h].status = 200) =>
              /\ EntryOf(h).session_id = chat[h].session_id
              /\ EntryOf(h).user = chat[h].message
              /\ EntryOf(h).bot = chat[h].response.text

\* C20, amended: as C20, but the history entry carries the reply text with
\* its leading and trailing white space removed.
C20_OrderAndStrippedTexts ==
    /\ C20_Order
    /\ \A h \in Handlers :
          (chat[h].phase = "replied" /\ chat[h].status = 200) =>
              /\ EntryOf(h).session_id = chat[h].session_id
              /\ EntryOf(h).user = chat[h].message
              /\ EntryOf(h).bot = Strip(chat[h].response.text)

\* a reply that ends in white space was returned and stored without it
C20_Witness ==
    /\ chat[1].phase = "replied" /\ chat[1].status = 200
    /\ chat[1].steps = <<"admit", "session", "route", "context", "history">>
    /\ Strip(chat[1].response.text) # chat[1].response.text
    /\ EntryOf(1).bot = Strip(chat[1].response.text)
    /\ recorded[chat[1].session_id] # <<>>

\* C21: a denied admit-check does not record the attempt: when the pruned
\* window of the key holds the threshold of timestamps the call is denied,
\* and the window it leaves is the pruned window, which holds the
\* timestamps of allowed checks only; so a denied check never moves the
\* time at which the oldest timestamp leaves the window.
C21_DeniedNotRecorded ==
    \A h \in Handlers :
        (pc[h] = "rl_done" /\ loc[h].arg \in GoodKeys) =>
            LET k == loc[h].arg
                pruned == Pruned(admitted[k], loc[h].aux)
            IN  /\ loc[h].res = (Len(loc[h].tmp) >= RATE_LIMIT_PER_MINUTE)
                /\ loc[h].res =>
                       /\ rate_limit_tracker[k] = loc[h].tmp
                       /\ rate_limit_tracker[k] = pruned

\* a second check in a row was denied, later than every allowed check, and
\* the window still holds the allowed timestamps only
C21_Witness ==
    \E k \in GoodKeys :
        /\ pc[1] = "rl_done" /\ loc[1].arg = k /\ loc[1].res
        /\ denied[k] >= 2
        /\ \A i \in DOMAIN admitted[k] : admitted[k][i] < loc[1].t
        /\ rate_limit_tracker[k] = admitted[k]


\* C22: once no update of a session is in progress, its interaction
\* counter equals the number of updates performed on it and its window
\* holds the latest of the exchanges recorded, also when the updates were
\* made by concurrent handlers.
InUpdate(h, s) ==
    /\ pc[h] \in {"uc_check", "uc_init", "uc_read", "uc_write", "uc_mood", "uc_append",
                  "uc_len", "uc_trim", "uc_name"}
    /\ loc[h].arg = s
C22_NoLostUpdate ==
    \A s \in SessionIds :
        (user_contexts[s] # NoContext /\ \A h \in Handlers : ~InUpdate(h, s)) =>
            /\ user_contexts[s].interaction_count = Len(recorded[s])
            /\ user_contexts[s].conversation_history = LatestExchanges(recorded[s])

\* the phrases in the priority order of the name rule
PhraseOrder == <<<<"m", "y", " ", "n", "a", "m", "e", " ", "i", "s">>, <<"c", "a", "l", "l", " ", "m", "e">>, <<"i", " ", "a", "m">>, <<"i", "'", "m">>>>
\* phrase p, white space and a word start at index i of the text
PhraseAt(text, p, i) ==
    /\ OccursAt(text, p, i)
    /\ i + Len(p) <= Len(text)
    /\ IsSpace(text[i + Len(p)])
    /\ SkipSpaces(text, i + Len(p)) <= Len(text)
    /\ IsWordChar(text[SkipSpaces(text, i + Len(p))])
\* the name the first phrase of the order that occurs in the text captures
PriorityName(user_msg) ==
    LET text == Lower(user_msg)
        hits == {n \in DOMAIN PhraseOrder : \E i \in 1..Len(text) : PhraseAt(text, PhraseOrder[n], i)}
    IN  IF hits = {} THEN NoName
        ELSE LET n == CHOOSE x \in hits : \A y \in hits : x <= y
                 i == CHOOSE x \in 1..Len(text) :
                         /\ PhraseAt(text, PhraseOrder[n], x)
                         /\ \A y \in 1..(x - 1) : ~PhraseAt(text, PhraseOrder[n], y)
                 j == SkipSpaces(text, i + Len(PhraseOrder[n]))
             IN  Capitalize(SubSeq(text, j, WordEnd(text, j)))
\* the name the exchanges of a session leave, taken in the order recorded
ExpectedName(exchanges) ==
    LET named == {k \in DOMAIN exchanges : PriorityName(exchanges[k].user) # NoName}
    IN  IF named = {} THEN NoName
        ELSE PriorityName(exchanges[CHOOSE k \in named : \A m \in named : m <= k].user)

\* C23: after every update the stored name is the capture of the first
\* phrase, in the order 'my name is', 'call me', 'i am', 'i'm', that occurs
\* anywhere in the user text, wherever the other phrases occur; a text
\* with none of the phrases leaves the stored name as it was.
C23_PhrasePriority ==
    \A h \in Handlers :
        (pc[h] = "uc_done" /\ loc[h].arg \in SessionIds) =>
            user_contexts[loc[h].arg].user_name = ExpectedName(recorded[loc[h].arg])

\* C24: every fallback envelope has source 'fallback' and its text is
\* decided by the message and the known user name alone: the keyword checks
\* are applied in the order greeting, status, capabilities, thanks, question
\* mark, and whichever reply is given, it holds the known user name when one
\* is known and no name slot when none is.
C24_FallbackInterpolatesName ==
    \A h \in Handlers :
        (pc[h] = "ai_done" /\ loc[h].t = "chat" /\ loc[h].tmp \in {"unavailable", "empty", "raises"}) =>
            LET text == loc[h].res.text
                lower == Lower(loc[h].aux)
                name == StoredName(loc[h].arg)
            IN  /\ loc[h].res.source = "fallback"
                /\ Head(text) =
                      IF ContainsAny(lower, {<<"h", "e", "l", "l", "o">>, <<"h", "i">>, <<"h", "e", "y">>, <<"g", "o", "o", "d", " ", "m", "o", "r", "n", "i", "n", "g">>,
                                             <<"g", "o", "o", "d", " ", "e", "v", "e", "n", "i", "n", "g">>})
                      THEN "Hello"
                      ELSE IF ContainsAny(lower, {<<"h", "o", "w", " ", "a", "r", "e", " ", "y", "o", "u">>, <<"h", "o", "w", " ", "r", " ", "u">>})
                      THEN "I'm doing great"
                      ELSE IF ContainsAny(lower, {<<"h", "e", "l", "p">>, <<"w", "h", "a", "t", " ", "c", "a", "n", " ", "y", "o", "u", " ", "d", "o">>})
                      THEN "I can help you with:"
                      ELSE IF ContainsAny(lower, {<<"t", "h", "a", "n", "k">>, <<"t", "h", "a", "n", "k", "s">>})
                      THEN "You're welcome"
                      ELSE IF Contains(loc[h].aux, <<"?">>)
                      THEN "That's an interesting question! Try asking about specific topics."
                      ELSE "I understand"
                /\ name # NoName => Contains(text, <<" ">> \o name)
                /\ name = NoName => ~Contains(text, <<" ">>)

RECURSIVE Whole(_, _)
\* the first k paragraphs, each followed by an empty line
Whole(paragraphs, k) ==
    IF k = 0 THEN <<>> ELSE Whole(paragraphs, k - 1) \o paragraphs[k] \o <<"\n", "\n">>
\* the prefixes of a paragraph that end with the '.' of one of its sentences
SentencePrefixes(para) == {SubSeq(para, 1, j) : j \in {m \in DOMAIN para : para[m] = "."}}

\* C25: the formatted text of a page is at most cap + title heading +
\* footer characters long and consists of the heading, paragraphs added
\* whole, at most one further paragraph cut at the end of one of its
\* sentences (so never in the middle of a word), and the footer, whatever
\* the paragraphs hold.
C25_CutAtSentenceEnd ==
    \A h \in Handlers :
        (pc[h] = "fr_done" /\ loc[h].res # <<"None">>) =>
            LET paragraphs == Paragraphs(loc[h].aux.content)
                heading == Heading(loc[h].aux.title)
            IN  /\ Len(loc[h].res) <= HARD_CAP + Len(heading) + Len(Footer)
                /\ \E k \in 0..Len(paragraphs) :
                      \/ loc[h].res = heading \o Whole(paragraphs, k) \o Footer
                      \/ /\ k < Len(paragraphs)
                         /\ \E cut \in SentencePrefixes(paragraphs[k + 1]) :
                               loc[h].res = heading \o Whole(paragraphs, k) \o cut
                                               \o <<"\n", "\n">> \o Footer

\* no handler holds both locks, and a handler between two calls holds none
C26_LocksApart ==
    \A h \in Handlers :
        /\ ~(sessions_lock = h /\ history_lock = h)
        /\ Ready(h) => (sessions_lock # h /\ history_lock # h)

\* C26: no request handler ever holds the session lock and the history
\* lock at the same time, each lock is released on every path out of its
\* critical section, and, the external calls returning and the scheduling
\* being fair, every chat, history-read and history-clear handler that has
\* started a request returns from it.
C26_EveryHandlerReturns ==
    /\ []C26_LocksApart
    /\ \A h \in Handlers : (~Returned(h)) ~> Returned(h)

\* one handler is inside create_session with the session lock while the
\* other holds the history lock, and both requests are served later on
C26_Witness ==
    \E h, g \in Handlers :
        /\ h # g
        /\ sessions_lock = h /\ pc[h] \in {"cs_sess", "cs_ctx"}
        /\ history_lock = g /\ pc[g] \in {"ac_append", "ac_evict", "gr_slice", "gr_rev", "ch_clear"}

\* the session is stored and its inactivity has exceeded the timeout
Expired(s) ==
    /\ active_sessions[s] # NoSession
    /\ ~NotExpired(FromIsoFormat(active_sessions[s].last_activity), now)

\* C27: session expiry is permanent: a session whose inactivity has
\* exceeded the timeout is neither deleted nor touched by any step of a
\* handler, so its last activity stays as it is and the session stays
\* expired, also when the handler validated the id just before it expired.
C27_ExpiryIsPermanent ==
    [][\A s \in SessionIds :
          Expired(s) =>
              /\ active_sessions'[s] # NoSession
              /\ active_sessions'[s].last_activity = active_sessions[s].last_activity]_vars

=========================================================================
